---- MODULE Spec2Model ----
(***************************************************************************)
(* Model of the Enedis metering proxy (src/server.js and its variants).    *)
(*                                                                         *)
(* Each part of the program is modelled under a specification of its own: *)
(*   - the weekly chunk loops of fetchMeteringInternal (/get-all) and of   *)
(*     fetchMeteringData (/get-linky, /get-production), under SpecFetch;   *)
(*   - the off-peak schedule parser parseOffpeakHours and the matcher      *)
(*     isTimeInOffpeak, under SpecOffpeak;                                 *)
(*   - the monthly aggregation of fetchMeteringInternal, under SpecAgg;    *)
(*   - the folds of aggregateMonths over several meters, under SpecFold;   *)
(*   - the handler of POST /get-all, under SpecGetAll;                     *)
(*   - aggregateData and the calibration against the official daily       *)
(*     totals, under SpecCalib;                                            *)
(*   - two concurrent requests of POST /get-all, under SpecPair;           *)
(*   - fetchMeteringData alone with every step eventually taken, under    *)
(*     SpecDataFair;                                                       *)
(*   - getToken and the shared appTokenCache, under SpecToken.             *)
(*                                                                         *)
(* Time is counted in ticks, TicksPerDay ticks to a day, so that a date    *)
(* with a time of day (accepted by Joi's isoDate) differs from midnight.   *)
(* A 'yyyy-MM-dd' string is modelled by its day number.                    *)
(***************************************************************************)
EXTENDS Integers, Sequences, FiniteSets, TLC

VARIABLES
    \* ---- chunk loops (fetchMeteringInternal / fetchMeteringData) ----
    fn,               \* which function runs: "none", "internal", "data", "part_002"
    pc,               \* "idle", "loop" (before the next request), "await", "retry", "done"
    start,            \* parsed range start, in ticks
    end,              \* parsed range end (finalEnd), in ticks
    current,          \* loop cursor, in ticks
    chunkEndDate,     \* end of the window of the outstanding request, in ticks
    allData,          \* accumulated readings (each reading is its day number)
    consecutiveEmpty, \* fetchMeteringData only
    skippedChunks,    \* fetchMeteringData only
    errorOccurred,    \* fetchMeteringData only
    outcome,          \* "none", "returned", "threw", or a response "200"/"400"/"500"
    aggInput,         \* the readings handed to the aggregation on return
    requests,         \* log of the load-curve requests issued: <<[start, end]>> in days
    served,           \* log of the windows whose response carried readings
    seen,             \* kinds of chunk outcomes met so far
    authAt,           \* index in requests of the first 401/403 failure, 0 if none
    \* ---- off-peak schedule ----
    opc,              \* "idle", "parsed", "classified"
    schedule,         \* the whole-hour ranges the text was written from, if any
    text,             \* the schedule text given to parseOffpeakHours
    periods,          \* its result
    date,             \* the timestamp classified: [hours, minutes]
    offpeak,          \* result of isTimeInOffpeak(date, periods)
    lookup,           \* the contract the text came from, <<>> when it came from none
    \* ---- aggregation of fetchMeteringInternal (lines 166-190) ----
    apc,              \* "idle", "entries" (inside forEach), "returned", "threw"
    entries,          \* the records aggregated (allData of the call)
    offpeakStr,       \* the schedule text of the call
    aggPeriods,       \* parseOffpeakHours(offpeakStr), line 167
    idx,              \* number of records already visited by forEach
    monthly,          \* the monthly structure being filled, then rounded
    total,            \* the returned total_wh
    \* ---- aggregateMonths folds (lines 44-52, 235, 255) ----
    fpc,              \* "idle", "folding"
    given,            \* the meters' monthly structures as they were returned
    sources,          \* the same structures as the folds leave them
    target,           \* the global monthly structure
    nfolded,          \* number of meters already folded
    \* ---- POST /get-all (lines 193-281) ----
    gpc,              \* "idle", "meter", "info", "call", "loop", "await", "responded", "crashed"
    npdl,             \* number of usage_point_ids of the request
    pdl,              \* index of the meter being processed
    stream,           \* "consumption" or "production": the fetch in progress
    gOffpeakStr,      \* offpeakStr of the meter being processed
    gCurrent,         \* loop cursor of the fetch in progress, in ticks
    gChunkEnd,        \* chunkEndDate of the outstanding request, in ticks
    gAllData,         \* allData of the fetch in progress
    globalConso,      \* [total_wh, hp_wh, hc_wh, monthly, offpeak_hours]
    globalProd,       \* [total_wh, monthly]
    response,         \* <<>> until the handler answers, then <<[status, success]>>
    inflight,         \* the upstream requests awaiting their answer
    conso,            \* result of the consumption fetch of this meter: <<>> or <<[total_wh, monthly]>>
    prod,             \* result of the production fetch of this meter, likewise
    started,          \* the [pdl, stream] of the meter in hand whose fetch entered its loop
    folded,           \* the [pdl, stream] whose result was added to the global accumulators
    authFailed,       \* the [pdl, stream] of the meter in hand and of the one before
                      \* it whose fetch a 401 / 403 ended
    counted,          \* per stream and window, how many folded results hold its record
    cause,            \* why the handler ended without an answer: "token", "record"
    \* ---- calibration pass of fetchMeteringData (lines 627-692) ----
    cpc,              \* "idle", "months" (inside the for loop), "responded"
    readings,         \* allData of the call, errorOccurred being false
    data,             \* month key -> 24 hourly sums, in hundredths of a Wh
    aggregated,       \* data as aggregateData returned it
    nmonths,          \* number of months the for loop has visited
    adjustmentInfo,   \* month key -> what was done for the month
    officials,        \* per visited month, what the daily endpoint gave
    calibResponse,    \* <<>> until the answer, then <<[status, success, total_wh]>>
    \* ---- two concurrent requests of POST /get-all ----
    rpc,              \* per request: "idle", the await it is at ("info", "conso",
                      \* "prod"), "responded", "crashed"
    rn,               \* per request, the number of its usage_point_ids
    rk,               \* per request, the meter in hand
    heap,             \* the objects created by the handlers, heap[ref] is the object
    consoRef,         \* per request, the reference its globalConso holds (0: none yet)
    prodRef,          \* per request, the reference its globalProd holds (0: none yet)
    aloneConso,       \* per request, what globalConso would hold were it the only request
    aloneProd,        \* per request, what globalProd would hold were it the only request
    rResponse,        \* per request, <<>> until the answer, then <<the answer>>
    \* ---- getToken, called by concurrent requests ----
    tpc,              \* per call: "idle", "await" (token request in flight), "returned", "threw"
    tProvided,        \* per call: the providedToken argument, Null when absent
    tNow,             \* per call: Date.now() of line 63 while its token request is in flight
    tResult,          \* per call: the token returned, Null so far
    appTokenCache,    \* the module-level cache [token, expiresAt]
    clock,            \* Date.now(), in units of five minutes
    posts             \* number of requests sent to the token endpoint

fetchVars == <<fn, pc, start, end, current, chunkEndDate, allData, consecutiveEmpty,
               skippedChunks, errorOccurred, outcome, aggInput, requests, served,
               seen, authAt>>
offpeakVars == <<opc, schedule, text, periods, date, offpeak, lookup>>
aggVars == <<apc, entries, offpeakStr, aggPeriods, idx, monthly, total>>
foldVars == <<fpc, given, sources, target, nfolded>>
getAllVars == <<gpc, npdl, pdl, stream, gOffpeakStr, gCurrent, gChunkEnd, gAllData,
                 globalConso, globalProd, response, inflight, conso, prod, started,
                 folded, authFailed, counted, cause>>
calibVars == <<cpc, readings, data, aggregated, nmonths, adjustmentInfo, officials,
                calibResponse>>
pairVars == <<rpc, rn, rk, heap, consoRef, prodRef, aloneConso, aloneProd, rResponse>>
tokenVars == <<tpc, tProvided, tNow, tResult, appTokenCache, clock, posts>>
vars == <<fetchVars, offpeakVars, aggVars, foldVars, getAllVars, calibVars, pairVars, tokenVars>>

exceptFetch == <<offpeakVars, aggVars, foldVars, getAllVars, calibVars, pairVars, tokenVars>>
exceptOffpeak == <<fetchVars, aggVars, foldVars, getAllVars, calibVars, pairVars, tokenVars>>
exceptAgg == <<fetchVars, offpeakVars, foldVars, getAllVars, calibVars, pairVars, tokenVars>>
exceptFold == <<fetchVars, offpeakVars, aggVars, getAllVars, calibVars, pairVars, tokenVars>>
exceptGetAll == <<fetchVars, offpeakVars, aggVars, foldVars, calibVars, pairVars, tokenVars>>
exceptCalib == <<fetchVars, offpeakVars, aggVars, foldVars, getAllVars, pairVars, tokenVars>>
exceptPair == <<fetchVars, offpeakVars, aggVars, foldVars, getAllVars, calibVars, tokenVars>>
exceptToken == <<fetchVars, offpeakVars, aggVars, foldVars, getAllVars, calibVars, pairVars>>

----------------------------------------------------------------------------
(* Bounds of the model *)

TicksPerDay == 2
MaxStartDay == 1
MaxSpanDays == 21
MaxTextLen == 3
MaxEntries == 2
MaxMeters == 2
YearDays == 8
MaxReadings == 3
MaxPairMeters == 1

(* Program constants *)

ChunkExtraDays == 6
EmptyThreshold == 2
MaxAttempts == 1
WeekDays == 7

----------------------------------------------------------------------------
(* date-fns helpers, on ticks *)

parseISO(day) == day * TicksPerDay

startOfDay(t) == t - (t % TicksPerDay)

addDays(t, n) == t + n * TicksPerDay

format(t) == t \div TicksPerDay

(* HTTP outcomes of one load-curve request *)

NoResponse == 0
ErrStatuses == {401, 403, 429, 500, NoResponse}

IsAuthFailure(status) == status = 401 \/ status = 403

Kind(status) == IF IsAuthFailure(status) THEN "auth" ELSE "transient"

(* The readings the data source returns for a window: one per day. *)
Readings(w) == [i \in 1..(w.end - w.start + 1) |-> w.start + i - 1]

RECURSIVE Flatten(_)
Flatten(ws) == IF ws = <<>> THEN <<>> ELSE Readings(Head(ws)) \o Flatten(Tail(ws))

Last(s) == s[Len(s)]

Front(s) == SubSeq(s, 1, Len(s) - 1)

----------------------------------------------------------------------------
(* The window of one iteration: chunkStart, chunkEndDate clipped to the end *)

(* the window end not clipped to the end of the range *)
UnclippedEnd(cur, fin) == addDays(cur, ChunkExtraDays)

ClippedEnd(cur, fin) ==
    LET e == addDays(cur, ChunkExtraDays) IN IF e > fin THEN fin ELSE e

Window(cur, fin) == [start |-> format(cur), end |-> format(ClippedEnd(cur, fin))]

(* the next window starts on the day the chunk ended *)
CursorAtChunkEnd(ced) == startOfDay(ced)

NextCursor(ced) == startOfDay(addDays(ced, 1))

----------------------------------------------------------------------------
(* Strings: a text is a sequence of one-character strings; null is Null. *)

Null == <<"null">>

UpperCase == <<"A","B","C","D","E","F","G","H","I","J","K","L","M",
               "N","O","P","Q","R","S","T","U","V","W","X","Y","Z">>
LowerCase == <<"a","b","c","d","e","f","g","h","i","j","k","l","m",
               "n","o","p","q","r","s","t","u","v","w","x","y","z">>
Digits == <<"0","1","2","3","4","5","6","7","8","9">>

IsSpace(c) == c \in {" ", "\t", "\n", "\r"}
IsDigit(c) == \E i \in 1..10 : Digits[i] = c
DigitValue(c) == (CHOOSE i \in 1..10 : Digits[i] = c) - 1

toLowerChar(c) ==
    IF \E i \in 1..26 : UpperCase[i] = c
    THEN LowerCase[CHOOSE i \in 1..26 : UpperCase[i] = c]
    ELSE c

toLowerCase(s) == [i \in 1..Len(s) |-> toLowerChar(s[i])]

Drop(s, n) == SubSeq(s, n + 1, Len(s))

StartsWith(s, p) == Len(s) >= Len(p) /\ SubSeq(s, 1, Len(p)) = p

RECURSIVE SkipSpaces(_)
SkipSpaces(s) == IF s # <<>> /\ IsSpace(Head(s)) THEN SkipSpaces(Tail(s)) ELSE s

RECURSIVE trimEnd(_)
trimEnd(s) == IF s # <<>> /\ IsSpace(s[Len(s)]) THEN trimEnd(Front(s)) ELSE s

trim(s) == trimEnd(SkipSpaces(s))

includes(s, c) == \E i \in 1..Len(s) : s[i] = c

(* what follows "hc" in /hc\s*[:=]?\s*/ *)
SkipMarkerTail(s) ==
    LET a == SkipSpaces(s)
        b == IF a # <<>> /\ Head(a) \in {":", "="} THEN Tail(a) ELSE a
    IN  SkipSpaces(b)

(* .replace(/hc\s*[:=]?\s*/g, '') *)
RECURSIVE StripMarker(_)
StripMarker(s) ==
    IF s = <<>> THEN <<>>
    ELSE IF StartsWith(s, <<"h", "c">>) THEN StripMarker(SkipMarkerTail(Drop(s, 2)))
    ELSE <<Head(s)>> \o StripMarker(Tail(s))

(* .replace(/h00/g, 'h') *)
RECURSIVE ReplaceH00(_)
ReplaceH00(s) ==
    IF s = <<>> THEN <<>>
    ELSE IF StartsWith(s, <<"h", "0", "0">>) THEN <<"h">> \o ReplaceH00(Drop(s, 3))
    ELSE <<Head(s)>> \o ReplaceH00(Tail(s))

(* .replace(/:/g, 'h') *)
ReplaceColon(s) == [i \in 1..Len(s) |-> IF s[i] = ":" THEN "h" ELSE s[i]]

(* .split(/;|,|et/): piece is the part read since the last separator *)
RECURSIVE SplitRanges(_, _)
SplitRanges(s, piece) ==
    IF s = <<>> THEN <<piece>>
    ELSE IF Head(s) \in {";", ","} THEN <<piece>> \o SplitRanges(Tail(s), <<>>)
    ELSE IF StartsWith(s, <<"e", "t">>) THEN <<piece>> \o SplitRanges(Drop(s, 2), <<>>)
    ELSE SplitRanges(Tail(s), Append(piece, Head(s)))

(* .split('-') *)
RECURSIVE SplitDash(_, _)
SplitDash(s, piece) ==
    IF s = <<>> THEN <<piece>>
    ELSE IF Head(s) = "-" THEN <<piece>> \o SplitDash(Tail(s), <<>>)
    ELSE SplitDash(Tail(s), Append(piece, Head(s)))

(* the filter keeping every piece *)
KeepsEveryPiece(p) == TRUE

HasDash(p) == includes(p, "-")

(* lines 86-94 *)
parseOffpeakHours(str) ==
    IF str = Null \/ str = <<>> THEN <<>>
    ELSE LET s == trim(ReplaceColon(ReplaceH00(StripMarker(toLowerCase(str)))))
             parts == SplitRanges(s, <<>>)
             trimmed == [i \in 1..Len(parts) |-> trim(parts[i])]
         IN  SelectSeq(trimmed, HasDash)

(* .replace(/\D/g, '') *)
OnlyDigits(s) == SelectSeq(s, IsDigit)

NaN == -1

RECURSIVE DecimalValue(_)
DecimalValue(ds) ==
    IF ds = <<>> THEN 0 ELSE 10 * DecimalValue(Front(ds)) + DigitValue(ds[Len(ds)])

(* an empty string read as 0 *)
parseIntOrZero(ds) == DecimalValue(ds)

(* parseInt on a string of digits: NaN when it is empty *)
parseInt(ds) == IF ds = <<>> THEN NaN ELSE DecimalValue(ds)

(* arithmetic and comparisons of JavaScript numbers, one of which may be NaN *)
Times(a, b) == IF a = NaN \/ b = NaN THEN NaN ELSE a * b
LessOrEqual(a, b) == a # NaN /\ b # NaN /\ a <= b
Less(a, b) == a # NaN /\ b # NaN /\ a < b
GreaterEq(a, b) == a # NaN /\ b # NaN /\ a >= b

MinutesPerHour == 60
HoursPerDay == 24

(* line 98 *)
MinuteOfDay(d) == d.hours * MinutesPerHour + d.minutes

(* lines 101-114: one iteration; TRUE when it returns true *)
RangeMatches(t, range) ==
    LET split == SplitDash(range, <<>>)
        parts == [i \in 1..Len(split) |-> trim(split[i])]
    IN  IF Len(parts) < 2 \/ parts[1] = <<>> \/ parts[2] = <<>> THEN FALSE
        ELSE LET startH == parseInt(OnlyDigits(parts[1]))
                 endH == parseInt(OnlyDigits(parts[2]))
                 startMin == Times(startH, MinutesPerHour)
                 endMin == Times(endH, MinutesPerHour)
             IN  IF Less(endMin, startMin)
                 THEN GreaterEq(t, startMin) \/ Less(t, endMin)
                 ELSE GreaterEq(t, startMin) /\ Less(t, endMin)

RECURSIVE AnyRangeMatches(_, _)
AnyRangeMatches(t, ps) ==
    IF ps = <<>> THEN FALSE
    ELSE IF RangeMatches(t, Head(ps)) THEN TRUE
    ELSE AnyRangeMatches(t, Tail(ps))

(* lines 96-117 *)
isTimeInOffpeak(d, ps) ==
    IF ps = Null \/ Len(ps) = 0 THEN FALSE
    ELSE AnyRangeMatches(MinuteOfDay(d), ps)

----------------------------------------------------------------------------
(* Monthly structures (server.js lines 29-52) and the aggregation of
   fetchMeteringInternal (lines 166-190).

   A JavaScript object is modelled by the sequence of its properties
   [key, value] in insertion order.  The accents of the month names are
   dropped.  Energies are integers: a value is a power in W, value * 0.5 is
   counted in halves of a Wh until Math.round makes it whole Wh. *)

MOIS_FR == <<"Janvier", "Fevrier", "Mars", "Avril", "Mai", "Juin", "Juillet",
             "Aout", "Septembre", "Octobre", "Novembre", "Decembre">>

HasKey(obj, key) == \E i \in 1..Len(obj) : obj[i].key = key

Get(obj, key) == obj[CHOOSE i \in 1..Len(obj) : obj[i].key = key].value

(* obj[key] = value: an existing property keeps its place, a new one is appended *)
Put(obj, key, value) ==
    IF HasKey(obj, key)
    THEN [i \in 1..Len(obj) |->
            IF obj[i].key = key THEN [key |-> key, value |-> value] ELSE obj[i]]
    ELSE Append(obj, [key |-> key, value |-> value])

Keys(obj) == [i \in 1..Len(obj) |-> obj[i].key]

ZeroMonth == [total_wh |-> 0, hp_wh |-> 0, hc_wh |-> 0]

RECURSIVE ZeroEach(_, _)
ZeroEach(obj, names) ==
    IF names = <<>> THEN obj
    ELSE ZeroEach(Put(obj, Head(names), ZeroMonth), Tail(names))

(* a structure that lacks its last month *)
ElevenMonths == ZeroEach(<<>>, Front(MOIS_FR))

(* lines 35-41 *)
getEmptyMonthsStructure == ZeroEach(<<>>, MOIS_FR)

(* the fold forgets the peak and off-peak fields *)
AddTotalOnly(t, s) == [t EXCEPT !.total_wh = @ + s.total_wh]

(* lines 48-50 *)
AddMonth(t, s) ==
    [total_wh |-> t.total_wh + s.total_wh,
     hp_wh |-> t.hp_wh + s.hp_wh,
     hc_wh |-> t.hc_wh + s.hc_wh]

RECURSIVE AddMonths(_, _, _)
AddMonths(tgt, src, names) ==
    IF names = <<>> THEN tgt
    ELSE LET mois == Head(names)
         IN  AddMonths(IF HasKey(tgt, mois) /\ HasKey(src, mois)
                       THEN Put(tgt, mois, AddMonth(Get(tgt, mois), Get(src, mois)))
                       ELSE tgt,
                       src, Tail(names))

(* lines 44-52: target is written in place, source is only read *)
aggregateMonths(tgt, src) ==
    [target |-> AddMonths(tgt, src, Keys(src)), source |-> src]

(* entry.date: absent, or a string that parseISO reads or not *)
DateAt(y, mo, h, mi) ==
    [given |-> TRUE, valid |-> TRUE, year |-> y, month |-> mo, hours |-> h, minutes |-> mi]
AbsentDate ==
    [given |-> FALSE, valid |-> FALSE, year |-> 0, month |-> 0, hours |-> 0, minutes |-> 0]
MalformedDate ==
    [given |-> TRUE, valid |-> FALSE, year |-> 0, month |-> 0, hours |-> 0, minutes |-> 0]

(* a month index that moves with the year of the date *)
MonthAndYear(d) == IF d.valid THEN (d.month + (d.year - 2024)) % 12 ELSE NaN

(* line 172: date.getMonth(), NaN for an Invalid Date *)
getMonth(d) == IF d.valid THEN d.month ELSE NaN

(* line 170: a record without date or without value is passed over *)
Passed(entry) == ~entry.date.given \/ entry.value = 0

(* line 174, in halves of a Wh *)
HalfWh(value) == value

AddTotal(month, wh) == [month EXCEPT !.total_wh = @ + wh]

(* the amount goes to both the peak and the off-peak field *)
AddToBoth(month, wh, isOffpeak) == [month EXCEPT !.hc_wh = @ + wh, !.hp_wh = @ + wh]

(* lines 178-179 *)
AddPeakOrOffpeak(month, wh, isOffpeak) ==
    IF isOffpeak THEN [month EXCEPT !.hc_wh = @ + wh]
    ELSE [month EXCEPT !.hp_wh = @ + wh]

(* lines 169-180: the body of forEach for one record; line 176 throws a
   TypeError when the month name is undefined *)
AggregateEntry(mon, entry, ps) ==
    IF Passed(entry) THEN [threw |-> FALSE, monthly |-> mon]
    ELSE LET monthIndex == getMonth(entry.date)
         IN  IF monthIndex = NaN \/ ~HasKey(mon, MOIS_FR[monthIndex + 1])
             THEN [threw |-> TRUE, monthly |-> mon]
             ELSE LET monthName == MOIS_FR[monthIndex + 1]
                      wh == HalfWh(entry.value)
                      withTotal == AddTotal(Get(mon, monthName), wh)
                  IN  [threw |-> FALSE,
                       monthly |-> Put(mon, monthName,
                           AddPeakOrOffpeak(withTotal, wh,
                                            isTimeInOffpeak(entry.date, ps)))]

(* Math.round of a number of halves: a half is rounded up *)
MathRound(halves) == (halves + 1) \div 2

(* lines 182-186 *)
RoundMonths(mon) ==
    [i \in 1..Len(mon) |->
        [key |-> mon[i].key,
         value |-> [total_wh |-> MathRound(mon[i].value.total_wh),
                    hp_wh |-> MathRound(mon[i].value.hp_wh),
                    hc_wh |-> MathRound(mon[i].value.hc_wh)]]]

RECURSIVE SumField(_, _)
SumField(mon, field) ==
    IF mon = <<>> THEN 0
    ELSE Head(mon).value[field] + SumField(Tail(mon), field)

(* line 188: sum of whole numbers, Math.round leaves it as it is *)
TotalOf(mon) == SumField(mon, "total_wh")

(* lines 166-190 as one function of the records and of the schedule text *)
RECURSIVE AggregateFrom(_, _, _)
AggregateFrom(mon, recs, ps) ==
    IF recs = <<>> THEN [threw |-> FALSE, monthly |-> RoundMonths(mon)]
    ELSE LET r == AggregateEntry(mon, Head(recs), ps)
         IN  IF r.threw THEN r ELSE AggregateFrom(r.monthly, Tail(recs), ps)

Aggregate(recs, str) == AggregateFrom(getEmptyMonthsStructure, recs, parseOffpeakHours(str))

----------------------------------------------------------------------------
(* Initial state: no call in progress, no schedule parsed *)

NoDate == [hours |-> 0, minutes |-> 0]

FetchInit ==
    /\ fn = "none" /\ pc = "idle"
    /\ start = 0 /\ end = 0 /\ current = 0 /\ chunkEndDate = 0
    /\ allData = <<>> /\ consecutiveEmpty = 0 /\ skippedChunks = 0
    /\ errorOccurred = FALSE /\ outcome = "none" /\ aggInput = <<>>
    /\ requests = <<>> /\ served = <<>> /\ seen = {} /\ authAt = 0

OffpeakInit ==
    /\ opc = "idle" /\ schedule = <<>> /\ text = <<>> /\ periods = <<>>
    /\ date = NoDate /\ offpeak = FALSE /\ lookup = <<>>

AggInit ==
    /\ apc = "idle" /\ entries = <<>> /\ offpeakStr = <<>> /\ aggPeriods = <<>>
    /\ idx = 0 /\ monthly = <<>> /\ total = 0

FoldInit ==
    /\ fpc = "idle" /\ given = <<>> /\ sources = <<>>
    /\ target = getEmptyMonthsStructure /\ nfolded = 0

Streams == {"consumption", "production"}

(* the first days of the weekly windows of the range of /get-all *)
WindowStarts == {d \in 0..YearDays : d % WeekDays = 0}

EmptyConso ==
    [total_wh |-> 0, hp_wh |-> 0, hc_wh |-> 0, monthly |-> getEmptyMonthsStructure,
     offpeak_hours |-> {}]

EmptyProd == [total_wh |-> 0, monthly |-> getEmptyMonthsStructure]

GetAllInit ==
    /\ gpc = "idle" /\ npdl = 0 /\ pdl = 0 /\ stream = "consumption"
    /\ gOffpeakStr = <<>> /\ gCurrent = 0 /\ gChunkEnd = 0 /\ gAllData = <<>>
    /\ globalConso = EmptyConso /\ globalProd = EmptyProd
    /\ response = <<>> /\ inflight = {} /\ conso = <<>> /\ prod = <<>>
    /\ started = {} /\ folded = {} /\ authFailed = {} /\ cause = "none"
    /\ counted = [st \in Streams |-> [d \in WindowStarts |-> 0]]

CalibInit ==
    /\ cpc = "idle" /\ readings = <<>> /\ data = <<>> /\ aggregated = <<>>
    /\ nmonths = 0 /\ adjustmentInfo = <<>> /\ officials = <<>> /\ calibResponse = <<>>

RequestIds == {1, 2}

PairInit ==
    /\ rpc = [r \in RequestIds |-> "idle"]
    /\ rn = [r \in RequestIds |-> 0] /\ rk = [r \in RequestIds |-> 0]
    /\ heap = <<>>
    /\ consoRef = [r \in RequestIds |-> 0] /\ prodRef = [r \in RequestIds |-> 0]
    /\ aloneConso = [r \in RequestIds |-> EmptyConso]
    /\ aloneProd = [r \in RequestIds |-> EmptyProd]
    /\ rResponse = [r \in RequestIds |-> <<>>]

TokenInit ==
    /\ tpc = [r \in RequestIds |-> "idle"]
    /\ tProvided = [r \in RequestIds |-> Null]
    /\ tNow = [r \in RequestIds |-> 0]
    /\ tResult = [r \in RequestIds |-> Null]
    /\ appTokenCache = [token |-> Null, expiresAt |-> 0]
    /\ clock = 0
    /\ posts = 0

Init ==
    /\ FetchInit /\ OffpeakInit /\ AggInit /\ FoldInit /\ GetAllInit /\ CalibInit
    /\ PairInit
    /\ TokenInit

----------------------------------------------------------------------------
(* fetchMeteringInternal: the chunk loop of /get-all *)

StartDays == 0..MaxStartDay
EndDays(s) == s..(s + MaxSpanDays)

(* line 138 succeeds, lines 139-142 *)
InternalStart ==
    /\ pc = "idle"
    /\ \E s \in StartDays : \E e \in EndDays(s) :
        /\ start' = parseISO(s)
        /\ end' = parseISO(e)
        /\ current' = parseISO(s)
    /\ fn' = "internal" /\ pc' = "loop"
    /\ UNCHANGED <<chunkEndDate, allData, consecutiveEmpty, skippedChunks,
                   errorOccurred, outcome, aggInput, requests, served, seen, authAt>>
    /\ UNCHANGED exceptFetch

(* line 138: getToken throws, so does fetchMeteringInternal *)
InternalTokenFails ==
    /\ pc = "idle"
    /\ fn' = "internal" /\ pc' = "done" /\ outcome' = "threw"
    /\ UNCHANGED <<start, end, current, chunkEndDate, allData, consecutiveEmpty,
                   skippedChunks, errorOccurred, aggInput, requests, served, seen, authAt>>
    /\ UNCHANGED exceptFetch

(* lines 144-156: the loop test holds, the request for the window is issued *)
InternalIssueChunk ==
    /\ fn = "internal" /\ pc = "loop"
    /\ current <= end
    /\ chunkEndDate' = ClippedEnd(current, end)
    /\ requests' = Append(requests, Window(current, end))
    /\ pc' = "await"
    /\ UNCHANGED <<fn, start, end, current, allData, consecutiveEmpty, skippedChunks,
                   errorOccurred, outcome, aggInput, served, seen, authAt>>
    /\ UNCHANGED exceptFetch

(* lines 144, 166-190: the loop test fails, the readings are aggregated and returned *)
InternalReturn ==
    /\ fn = "internal" /\ pc = "loop"
    /\ ~(current <= end)
    /\ pc' = "done" /\ outcome' = "returned" /\ aggInput' = allData
    /\ UNCHANGED <<fn, start, end, current, chunkEndDate, allData, consecutiveEmpty,
                   skippedChunks, errorOccurred, requests, served, seen, authAt>>
    /\ UNCHANGED exceptFetch

(* lines 157-159, 163: a response with readings *)
InternalChunkData ==
    /\ fn = "internal" /\ pc = "await"
    /\ allData' = allData \o Readings(Last(requests))
    /\ served' = Append(served, Last(requests))
    /\ seen' = seen \cup {"data"}
    /\ current' = NextCursor(chunkEndDate)
    /\ pc' = "loop"
    /\ UNCHANGED <<fn, start, end, chunkEndDate, consecutiveEmpty, skippedChunks,
                   errorOccurred, outcome, aggInput, requests, authAt>>
    /\ UNCHANGED exceptFetch

(* lines 157-159, 163: a response without interval_reading, or with an empty one *)
InternalChunkEmpty ==
    /\ fn = "internal" /\ pc = "await"
    /\ seen' = seen \cup {"empty"}
    /\ current' = NextCursor(chunkEndDate)
    /\ pc' = "loop"
    /\ UNCHANGED <<fn, start, end, chunkEndDate, allData, consecutiveEmpty, skippedChunks,
                   errorOccurred, outcome, aggInput, requests, served, authAt>>
    /\ UNCHANGED exceptFetch

(* the break forgotten for 403 *)
InternalBreaksOnly401(status) == status # NoResponse /\ status = 401

(* line 161: the catch block leaves the loop on these failures *)
InternalBreaks(status) == status # NoResponse /\ (status = 401 \/ status = 403)

(* lines 160-163, then 166-190 on break *)
InternalChunkFail ==
    /\ fn = "internal" /\ pc = "await"
    /\ \E status \in ErrStatuses :
        /\ seen' = seen \cup {Kind(status)}
        /\ authAt' = IF IsAuthFailure(status) /\ authAt = 0 THEN Len(requests) ELSE authAt
        /\ IF InternalBreaks(status)
           THEN /\ pc' = "done" /\ outcome' = "returned" /\ aggInput' = allData
                /\ UNCHANGED current
           ELSE /\ current' = NextCursor(chunkEndDate)
                /\ pc' = "loop"
                /\ UNCHANGED <<outcome, aggInput>>
    /\ UNCHANGED <<fn, start, end, chunkEndDate, allData, consecutiveEmpty, skippedChunks,
                   errorOccurred, requests, served>>
    /\ UNCHANGED exceptFetch

----------------------------------------------------------------------------
(* fetchMeteringData (server.js): the chunk loop of /get-linky, /get-production *)

StartTicks == 0..(parseISO(MaxStartDay) + TicksPerDay - 1)
EndTicks(s) == (IF s = 0 THEN 0 ELSE s - 1)..(s + parseISO(MaxSpanDays))

(* line 613: more than half of the weeks of the range were skipped *)
MostlySkipped(skipped, s, e) == 2 * skipped > (e - s) \div (WeekDays * TicksPerDay)

(* lines 613-616, 623-627, 680-691 with no readings to calibrate: the response *)
StatusOf(err) == IF err THEN "500" ELSE "200"

FinalError(err, skipped, s, e) == IF MostlySkipped(skipped, s, e) THEN FALSE ELSE err

(* the threshold compared with >= *)
TooManyEmptyAtThreshold(n) == n >= EmptyThreshold

(* line 594, line 606 *)
TooManyEmpty(n) == n > EmptyThreshold

(* line 579 *)
DataRetries(status, attempts) == (status = 500 \/ status = 429) /\ attempts < 0

(* lines 542-544: start >= end is rejected *)
DataReject ==
    /\ pc = "idle"
    /\ \E s \in StartTicks : \E e \in EndTicks(s) :
        /\ s >= e
        /\ start' = s /\ end' = e
    /\ fn' = "data" /\ pc' = "done" /\ outcome' = "400"
    /\ UNCHANGED <<current, chunkEndDate, allData, consecutiveEmpty, skippedChunks,
                   errorOccurred, aggInput, requests, served, seen, authAt>>
    /\ UNCHANGED exceptFetch

(* lines 545-550: getToken throws *)
DataTokenFails ==
    /\ pc = "idle"
    /\ \E s \in StartTicks : \E e \in EndTicks(s) :
        /\ ~(s >= e)
        /\ start' = s /\ end' = e
    /\ fn' = "data" /\ pc' = "done" /\ outcome' = "500"
    /\ UNCHANGED <<current, chunkEndDate, allData, consecutiveEmpty, skippedChunks,
                   errorOccurred, aggInput, requests, served, seen, authAt>>
    /\ UNCHANGED exceptFetch

(* lines 542-555 *)
DataStart ==
    /\ pc = "idle"
    /\ \E s \in StartTicks : \E e \in EndTicks(s) :
        /\ ~(s >= e)
        /\ start' = s /\ end' = e
        /\ current' = startOfDay(s)
    /\ fn' = "data" /\ pc' = "loop"
    /\ UNCHANGED <<chunkEndDate, allData, consecutiveEmpty, skippedChunks,
                   errorOccurred, outcome, aggInput, requests, served, seen, authAt>>
    /\ UNCHANGED exceptFetch

(* lines 557-576: the loop test holds, attempts = 0 < 1, the request is issued *)
DataIssueChunk ==
    /\ fn = "data" /\ pc = "loop"
    /\ current <= end /\ ~errorOccurred
    /\ 0 < MaxAttempts
    /\ chunkEndDate' = ClippedEnd(current, end)
    /\ requests' = Append(requests, Window(current, end))
    /\ pc' = "await"
    /\ UNCHANGED <<fn, start, end, current, allData, consecutiveEmpty, skippedChunks,
                   errorOccurred, outcome, aggInput, served, seen, authAt>>
    /\ UNCHANGED exceptFetch

(* lines 557, 613-616, 680: the loop test fails *)
DataLoopExit ==
    /\ fn = "data" /\ pc = "loop"
    /\ ~(current <= end /\ ~errorOccurred)
    /\ errorOccurred' = FinalError(errorOccurred, skippedChunks, start, end)
    /\ outcome' = StatusOf(errorOccurred')
    /\ aggInput' = allData
    /\ pc' = "done"
    /\ UNCHANGED <<fn, start, end, current, chunkEndDate, allData, consecutiveEmpty,
                   skippedChunks, requests, served, seen, authAt>>
    /\ UNCHANGED exceptFetch

(* lines 577, 600-601, 609-611: a response with readings *)
DataChunkData ==
    /\ fn = "data" /\ pc = "await"
    /\ allData' = allData \o Readings(Last(requests))
    /\ served' = Append(served, Last(requests))
    /\ seen' = seen \cup {"data"}
    /\ consecutiveEmpty' = 0
    /\ current' = NextCursor(chunkEndDate)
    /\ pc' = "loop"
    /\ UNCHANGED <<fn, start, end, chunkEndDate, skippedChunks, errorOccurred, outcome,
                   aggInput, requests, authAt>>
    /\ UNCHANGED exceptFetch

(* the skipped chunk is left out of skippedChunks *)
DataSkipUncounted ==
    /\ skippedChunks' = skippedChunks
    /\ consecutiveEmpty' = consecutiveEmpty + 1
    /\ IF TooManyEmpty(consecutiveEmpty')
       THEN /\ errorOccurred' = FinalError(errorOccurred, skippedChunks', start, end)
            /\ outcome' = StatusOf(errorOccurred')
            /\ aggInput' = allData
            /\ pc' = "done"
       ELSE /\ pc' = "loop"
            /\ UNCHANGED <<errorOccurred, outcome, aggInput>>
    /\ UNCHANGED <<fn, start, end, current, chunkEndDate, allData, served>>

(* lines 590-599 and 602-608: the chunk counts as skipped; break or continue *)
DataSkip ==
    /\ skippedChunks' = skippedChunks + 1
    /\ consecutiveEmpty' = consecutiveEmpty + 1
    /\ IF TooManyEmpty(consecutiveEmpty')
       THEN /\ errorOccurred' = FinalError(errorOccurred, skippedChunks', start, end)
            /\ outcome' = StatusOf(errorOccurred')
            /\ aggInput' = allData
            /\ pc' = "done"
       ELSE /\ pc' = "loop"
            /\ UNCHANGED <<errorOccurred, outcome, aggInput>>
    /\ UNCHANGED <<fn, start, end, current, chunkEndDate, allData, served>>

(* lines 577, 600-608: a response without readings *)
DataChunkEmpty ==
    /\ fn = "data" /\ pc = "await"
    /\ seen' = seen \cup {"empty"}
    /\ DataSkip
    /\ UNCHANGED <<requests, authAt>>
    /\ UNCHANGED exceptFetch

(* lines 578-599: the request fails *)
DataChunkFail ==
    /\ fn = "data" /\ pc = "await"
    /\ \E status \in ErrStatuses :
        /\ seen' = seen \cup {Kind(status)}
        /\ authAt' = IF IsAuthFailure(status) /\ authAt = 0 THEN Len(requests) ELSE authAt
        /\ IF DataRetries(status, 0)
           THEN /\ requests' = Append(requests, Last(requests))
                /\ UNCHANGED <<fn, pc, start, end, current, chunkEndDate, allData, served,
                               consecutiveEmpty, skippedChunks, errorOccurred, outcome,
                               aggInput>>
           ELSE /\ DataSkip
                /\ UNCHANGED requests
    /\ UNCHANGED exceptFetch

----------------------------------------------------------------------------
(* fetchMeteringData of unnamed/part_002: the chunk loop without skipping,
   with one retry of the window under the app token after a 401 / 403 *)

(* part_002 lines 212-218: start >= end is rejected *)
Part2Reject ==
    /\ pc = "idle"
    /\ \E s \in StartTicks : \E e \in EndTicks(s) :
        /\ s >= e
        /\ start' = s /\ end' = e
    /\ fn' = "part_002" /\ pc' = "done" /\ outcome' = "400"
    /\ UNCHANGED <<current, chunkEndDate, allData, consecutiveEmpty, skippedChunks,
                   errorOccurred, aggInput, requests, served, seen, authAt>>
    /\ UNCHANGED exceptFetch

(* part_002 lines 220-225: getToken throws *)
Part2TokenFails ==
    /\ pc = "idle"
    /\ \E s \in StartTicks : \E e \in EndTicks(s) :
        /\ ~(s >= e)
        /\ start' = s /\ end' = e
    /\ fn' = "part_002" /\ pc' = "done" /\ outcome' = "500"
    /\ UNCHANGED <<current, chunkEndDate, allData, consecutiveEmpty, skippedChunks,
                   errorOccurred, aggInput, requests, served, seen, authAt>>
    /\ UNCHANGED exceptFetch

(* part_002 lines 216-229 *)
Part2Start ==
    /\ pc = "idle"
    /\ \E s \in StartTicks : \E e \in EndTicks(s) :
        /\ ~(s >= e)
        /\ start' = s /\ end' = e
        /\ current' = startOfDay(s)
    /\ fn' = "part_002" /\ pc' = "loop"
    /\ UNCHANGED <<chunkEndDate, allData, consecutiveEmpty, skippedChunks,
                   errorOccurred, outcome, aggInput, requests, served, seen, authAt>>
    /\ UNCHANGED exceptFetch

(* part_002 lines 231-245: the loop test holds, the request is issued *)
Part2IssueChunk ==
    /\ fn = "part_002" /\ pc = "loop"
    /\ current <= end /\ ~errorOccurred
    /\ chunkEndDate' = ClippedEnd(current, end)
    /\ requests' = Append(requests, Window(current, end))
    /\ pc' = "await"
    /\ UNCHANGED <<fn, start, end, current, allData, consecutiveEmpty, skippedChunks,
                   errorOccurred, outcome, aggInput, served, seen, authAt>>
    /\ UNCHANGED exceptFetch

(* part_002 lines 231, 274-293 without aggregation: the loop test fails *)
Part2LoopExit ==
    /\ fn = "part_002" /\ pc = "loop"
    /\ ~(current <= end /\ ~errorOccurred)
    /\ outcome' = StatusOf(errorOccurred)
    /\ aggInput' = allData
    /\ pc' = "done"
    /\ UNCHANGED <<fn, start, end, current, chunkEndDate, allData, consecutiveEmpty,
                   skippedChunks, errorOccurred, requests, served, seen, authAt>>
    /\ UNCHANGED exceptFetch

(* part_002 lines 263-266: the request, or its retry, answers with readings *)
Part2ChunkData ==
    /\ fn = "part_002" /\ pc \in {"await", "retry"}
    /\ allData' = allData \o Readings(Last(requests))
    /\ served' = Append(served, Last(requests))
    /\ seen' = seen \cup {"data"}
    /\ current' = NextCursor(chunkEndDate)
    /\ pc' = "loop"
    /\ UNCHANGED <<fn, start, end, chunkEndDate, consecutiveEmpty, skippedChunks,
                   errorOccurred, outcome, aggInput, requests, authAt>>
    /\ UNCHANGED exceptFetch

(* part_002 lines 263-266: an answer without readings *)
Part2ChunkEmpty ==
    /\ fn = "part_002" /\ pc \in {"await", "retry"}
    /\ seen' = seen \cup {"empty"}
    /\ current' = NextCursor(chunkEndDate)
    /\ pc' = "loop"
    /\ UNCHANGED <<fn, start, end, chunkEndDate, allData, consecutiveEmpty, skippedChunks,
                   errorOccurred, outcome, aggInput, requests, served, authAt>>
    /\ UNCHANGED exceptFetch

(* part_002 lines 267-272, 274-293: what the outer catch makes of a throw *)
Part2Caught ==
    /\ errorOccurred' = TRUE
    /\ outcome' = StatusOf(TRUE)
    /\ aggInput' = allData
    /\ pc' = "done"

(* part_002 lines 259-261: every failure other than 401 / 403 is thrown again *)
Part2Rethrows(status) == ~IsAuthFailure(status)

(* part_002 lines 246-262: the request fails; on 401 / 403 getToken() is
   called for the app token and the window is requested again *)
Part2ChunkFail ==
    /\ fn = "part_002" /\ pc = "await"
    /\ \E status \in ErrStatuses :
        /\ seen' = seen \cup {Kind(status)}
        /\ authAt' = IF IsAuthFailure(status) /\ authAt = 0 THEN Len(requests) ELSE authAt
        /\ IF Part2Rethrows(status)
           THEN /\ Part2Caught
                /\ UNCHANGED <<requests, current>>
           ELSE \/ /\ requests' = Append(requests, Last(requests))
                   /\ pc' = "retry"
                   /\ UNCHANGED <<errorOccurred, outcome, aggInput, current>>
                \/ /\ Part2Caught
                   /\ UNCHANGED <<requests, current>>
    /\ UNCHANGED <<fn, start, end, chunkEndDate, allData, consecutiveEmpty, skippedChunks,
                   served>>
    /\ UNCHANGED exceptFetch

(* part_002 lines 250-258: the retry fails, whatever the failure it is thrown *)
Part2RetryFail ==
    /\ fn = "part_002" /\ pc = "retry"
    /\ \E status \in ErrStatuses : seen' = seen \cup {Kind(status)}
    /\ Part2Caught
    /\ UNCHANGED <<fn, start, end, current, chunkEndDate, allData, consecutiveEmpty,
                   skippedChunks, requests, served, authAt>>
    /\ UNCHANGED exceptFetch

----------------------------------------------------------------------------
FetchNext ==
    \/ InternalStart
    \/ InternalTokenFails
    \/ InternalIssueChunk
    \/ InternalReturn
    \/ InternalChunkData
    \/ InternalChunkEmpty
    \/ InternalChunkFail
    \/ DataReject
    \/ DataTokenFails
    \/ DataStart
    \/ DataIssueChunk
    \/ DataLoopExit
    \/ DataChunkData
    \/ DataChunkEmpty
    \/ DataChunkFail
    \/ Part2Reject
    \/ Part2TokenFails
    \/ Part2Start
    \/ Part2IssueChunk
    \/ Part2LoopExit
    \/ Part2ChunkData
    \/ Part2ChunkEmpty
    \/ Part2ChunkFail
    \/ Part2RetryFail

SpecFetch == Init /\ [][FetchNext]_vars

----------------------------------------------------------------------------
(* fetchMeteringData (server.js) alone, called with dates without a time of
   day, every step eventually taken: each request is answered or times out
   (line 574), the rest is synchronous *)

(* lines 542-544 with start_date = end_date *)
DataRejectDays ==
    /\ pc = "idle"
    /\ \E s \in StartDays : start' = parseISO(s) /\ end' = parseISO(s)
    /\ fn' = "data" /\ pc' = "done" /\ outcome' = "400"
    /\ UNCHANGED <<current, chunkEndDate, allData, consecutiveEmpty, skippedChunks,
                   errorOccurred, aggInput, requests, served, seen, authAt>>
    /\ UNCHANGED exceptFetch

(* lines 545-550: getToken throws *)
DataTokenFailsDays ==
    /\ pc = "idle"
    /\ \E s \in StartDays : \E e \in EndDays(s) :
        /\ ~(parseISO(s) >= parseISO(e))
        /\ start' = parseISO(s) /\ end' = parseISO(e)
    /\ fn' = "data" /\ pc' = "done" /\ outcome' = "500"
    /\ UNCHANGED <<current, chunkEndDate, allData, consecutiveEmpty, skippedChunks,
                   errorOccurred, aggInput, requests, served, seen, authAt>>
    /\ UNCHANGED exceptFetch

(* lines 542-555 *)
DataStartDays ==
    /\ pc = "idle"
    /\ \E s \in StartDays : \E e \in EndDays(s) :
        /\ ~(parseISO(s) >= parseISO(e))
        /\ start' = parseISO(s) /\ end' = parseISO(e)
        /\ current' = startOfDay(parseISO(s))
    /\ fn' = "data" /\ pc' = "loop"
    /\ UNCHANGED <<chunkEndDate, allData, consecutiveEmpty, skippedChunks,
                   errorOccurred, outcome, aggInput, requests, served, seen, authAt>>
    /\ UNCHANGED exceptFetch

DataNext ==
    \/ DataRejectDays
    \/ DataTokenFailsDays
    \/ DataStartDays
    \/ DataIssueChunk
    \/ DataLoopExit
    \/ DataChunkData
    \/ DataChunkEmpty
    \/ DataChunkFail

SpecDataFair == Init /\ [][DataNext]_vars /\ WF_vars(DataNext)

----------------------------------------------------------------------------
(* Off-peak schedules: parseOffpeakHours, then isTimeInOffpeak *)

TextDefault == <<"H", "C", " ", "(", "2", "2", "H", "0", "0", "-", "0", "6", "H", "0", "0", ")">>
TextShort == <<"2", "2", "h", "-", "6", "h">>
TextPadded == <<"2", "2", "h", "0", "0", "-", "0", "6", "h", "0", "0">>
TextColon == <<"2", "2", ":", "0", "0", "-", "0", "6", ":", "0", "0">>
TextHalfHour == <<"2", "2", "h", "-", "6", "h", ";", "1", "2", "h", "3", "0", "-", "1", "4", "h">>
TextNoDigit == <<"x", "-", "6", "h">>
TextMorning == <<"8", "h", "-", "1", "2", "h">>
TextList == <<"H", "C", ":", " ", "2", "2", "h", "-", "6", "h", " ", "e", "t", " ", "1", "2", "h", "-", "1", "4", "h", ",", " ", "2", "h", "-", "3", "h">>

LiteralTexts == {Null, TextDefault, TextShort, TextPadded, TextColon, TextHalfHour,
                 TextNoDigit, TextMorning, TextList}

TextAlphabet == {"H", "c", "2", "-", ";", " "}
ShortTexts == UNION {[1..n -> TextAlphabet] : n \in 0..MaxTextLen}

WholeHours == {0, 6, 8, 12, 22}
HourRanges == [startH : WholeHours, endH : WholeHours]
WholeHourSchedules == {<<r>> : r \in HourRanges} \cup {<<r, q>> : r \in HourRanges, q \in HourRanges}

(* a whole-hour schedule written as text: "22h-6h;12h-14h" *)
HourText(h) ==
    IF h < 10 THEN <<Digits[h + 1]>> ELSE <<Digits[(h \div 10) + 1], Digits[(h % 10) + 1]>>

RangeText(r) == HourText(r.startH) \o <<"h", "-">> \o HourText(r.endH) \o <<"h">>

RECURSIVE ScheduleText(_)
ScheduleText(sch) ==
    IF Len(sch) = 1 THEN RangeText(sch[1])
    ELSE RangeText(Head(sch)) \o <<";">> \o ScheduleText(Tail(sch))

MinuteChoices == {0, 29, 30, 59}
Dates == [hours : 0..23, minutes : MinuteChoices]

(* the answer of the contracts endpoint as getUserInfoInternal keeps it
   (lines 126-133): contract is null when the request failed or named no
   usage point *)
NoContract == [present |-> FALSE, offpeak_hours |-> Null]
Contracts == {NoContract} \cup [present : {TRUE}, offpeak_hours : {Null, <<>>, TextShort}]

(* the contracts the schedule of one meter is read from *)
ContractAnswers ==
    Contracts \cup [present : {TRUE}, offpeak_hours : {TextMorning, TextHalfHour}]

(* the schedule of the contract is handed on as it is, even when there is none *)
ScheduleAsGiven(contract) == contract.offpeak_hours

(* lines 221-224 *)
OffpeakStrOf(contract) ==
    IF ~contract.present \/ contract.offpeak_hours = Null \/ contract.offpeak_hours = <<>>
    THEN TextDefault
    ELSE contract.offpeak_hours

(* lines 219-224, 230, 167: the schedule text of a meter of /get-all comes
   from its contract lookup and is parsed *)
ParseContract ==
    /\ opc = "idle"
    /\ \E contract \in ContractAnswers :
        /\ lookup' = <<contract>>
        /\ text' = OffpeakStrOf(contract)
        /\ periods' = parseOffpeakHours(text')
    /\ schedule' = <<>>
    /\ opc' = "parsed"
    /\ UNCHANGED <<date, offpeak>>
    /\ UNCHANGED exceptOffpeak

(* line 167: a schedule text is parsed *)
ParseText ==
    /\ opc = "idle"
    /\ \E str \in LiteralTexts \cup ShortTexts :
        /\ text' = str
        /\ periods' = parseOffpeakHours(str)
    /\ schedule' = <<>>
    /\ opc' = "parsed"
    /\ UNCHANGED <<date, offpeak, lookup>>
    /\ UNCHANGED exceptOffpeak

(* line 167: the text of a schedule of whole-hour ranges is parsed *)
ParseWholeHours ==
    /\ opc = "idle"
    /\ \E sch \in WholeHourSchedules :
        /\ schedule' = sch
        /\ text' = ScheduleText(sch)
        /\ periods' = parseOffpeakHours(text')
    /\ opc' = "parsed"
    /\ UNCHANGED <<date, offpeak, lookup>>
    /\ UNCHANGED exceptOffpeak

(* line 178: a timestamp is classified with the parsed periods *)
Classify ==
    /\ opc = "parsed"
    /\ \E d \in Dates :
        /\ date' = d
        /\ offpeak' = isTimeInOffpeak(d, periods)
    /\ opc' = "classified"
    /\ UNCHANGED <<schedule, text, periods, lookup>>
    /\ UNCHANGED exceptOffpeak

OffpeakNext == ParseText \/ ParseWholeHours \/ ParseContract \/ Classify

SpecOffpeak == Init /\ [][OffpeakNext]_vars

----------------------------------------------------------------------------
(* The aggregation of fetchMeteringInternal, one record of allData at a time *)

SampleDates == {DateAt(2024, 0, 10, 0), DateAt(2024, 0, 23, 0), DateAt(2024, 1, 5, 59),
                DateAt(2025, 0, 10, 0), AbsentDate, MalformedDate}
SampleValues == {0, 1000, 1001}
Samples == [date : SampleDates, value : SampleValues]
EntryLists == UNION {[1..n -> Samples] : n \in 0..MaxEntries}
AggTexts == {<<>>, TextDefault, TextMorning}

(* lines 166-167 *)
AggStart ==
    /\ apc = "idle"
    /\ \E recs \in EntryLists : \E str \in AggTexts :
        /\ entries' = recs
        /\ offpeakStr' = str
        /\ aggPeriods' = parseOffpeakHours(str)
    /\ monthly' = getEmptyMonthsStructure
    /\ idx' = 0
    /\ apc' = "entries"
    /\ UNCHANGED total
    /\ UNCHANGED exceptAgg

(* lines 169-180: forEach visits the next record *)
AggVisit ==
    /\ apc = "entries"
    /\ idx < Len(entries)
    /\ LET r == AggregateEntry(monthly, entries[idx + 1], aggPeriods)
       IN  IF r.threw
           THEN apc' = "threw" /\ UNCHANGED <<monthly, idx>>
           ELSE monthly' = r.monthly /\ idx' = idx + 1 /\ UNCHANGED apc
    /\ UNCHANGED <<entries, offpeakStr, aggPeriods, total>>
    /\ UNCHANGED exceptAgg

(* lines 182-190: every field is rounded, the total is computed and returned *)
AggReturn ==
    /\ apc = "entries"
    /\ idx = Len(entries)
    /\ monthly' = RoundMonths(monthly)
    /\ total' = TotalOf(monthly')
    /\ apc' = "returned"
    /\ UNCHANGED <<entries, offpeakStr, aggPeriods, idx>>
    /\ UNCHANGED exceptAgg

AggNext == AggStart \/ AggVisit \/ AggReturn

SpecAgg == Init /\ [][AggNext]_vars

----------------------------------------------------------------------------
(* The folds of /get-all: the structures of the meters are added, one after
   the other, into a global structure that starts empty (lines 207-208, 235, 255) *)

MonthChoices == {ZeroMonth,
                 [total_wh |-> 10, hp_wh |-> 4, hc_wh |-> 6],
                 [total_wh |-> 5, hp_wh |-> 5, hc_wh |-> 0]}

(* a structure as fetchMeteringInternal returns it, with energy in two months *)
MeterStructure(jan, dec) ==
    Put(Put(getEmptyMonthsStructure, "Janvier", jan), "Decembre", dec)

MeterStructures == {MeterStructure(j, d) : j \in MonthChoices, d \in MonthChoices}
MeterLists == UNION {[1..n -> MeterStructures] : n \in 0..MaxMeters}

(* lines 207-208: the global structure is created, the meters are known *)
FoldStart ==
    /\ fpc = "idle"
    /\ \E list \in MeterLists : given' = list /\ sources' = list
    /\ target' = getEmptyMonthsStructure
    /\ nfolded' = 0
    /\ fpc' = "folding"
    /\ UNCHANGED exceptFold

(* line 235 (consumption) or 255 (production): the next meter is folded *)
FoldMeter ==
    /\ fpc = "folding"
    /\ nfolded < Len(sources)
    /\ LET r == aggregateMonths(target, sources[nfolded + 1])
       IN  /\ target' = r.target
           /\ sources' = [sources EXCEPT ![nfolded + 1] = r.source]
    /\ nfolded' = nfolded + 1
    /\ UNCHANGED <<fpc, given>>
    /\ UNCHANGED exceptFold

FoldNext == FoldStart \/ FoldMeter

SpecFold == Init /\ [][FoldNext]_vars

----------------------------------------------------------------------------
(* POST /get-all (server.js lines 193-281): for every meter the contract
   lookup, the consumption fetch and the production fetch, one after the
   other; the range is the year that ends today, YearDays days here. *)

(* lines 199-200, 141-142 *)
GetAllStart == parseISO(0)
GetAllEnd == parseISO(YearDays)

(* what the load-curve endpoint holds for a window: one record, in the month
   numbered by the week of the window; it may come with a record whose date
   cannot be read *)
WindowRecord(w) ==
    [date |-> DateAt(2024, (w.start \div WeekDays) % 12, 23, 0), value |-> 1001]
MalformedRecord == [date |-> MalformedDate, value |-> 1001]
WindowReadings(w) == {<<WindowRecord(w)>>, <<WindowRecord(w), MalformedRecord>>}

(* the result of the consumption fetch is dropped instead of being added *)
ConsoDropped(gc, mon) == gc

(* lines 232-241 *)
FoldConso(gc, mon) ==
    [total_wh |-> gc.total_wh + TotalOf(mon),
     hp_wh |-> gc.hp_wh + SumField(mon, "hp_wh"),
     hc_wh |-> gc.hc_wh + SumField(mon, "hc_wh"),
     monthly |-> aggregateMonths(gc.monthly, mon).target,
     offpeak_hours |-> gc.offpeak_hours]

NoWindow == [start |-> 0, end |-> 0]

(* the handler goes on while the request is still outstanding *)
NotAwaited(reqs, r) == reqs

(* lines 125, 152: await axios.get(...), the handler resumes when the request
   has its answer or has failed *)
Settle(reqs, r) == reqs \ {r}

(* the load-curve request of the fetch in progress for the window at the cursor *)
ChunkRequest == [pdl |-> pdl, what |-> stream, window |-> Window(gCurrent, GetAllEnd)]

ContractsRequest == [pdl |-> pdl, what |-> "contracts", window |-> NoWindow]

(* lines 194-217: the body is valid, the accumulators are created *)
GetAllReceive ==
    /\ gpc = "idle"
    /\ \E n \in 1..MaxMeters : npdl' = n
    /\ pdl' = 1 /\ stream' = "consumption"
    /\ globalConso' = EmptyConso /\ globalProd' = EmptyProd
    /\ gpc' = "meter"
    /\ UNCHANGED <<gOffpeakStr, gCurrent, gChunkEnd, gAllData, response, inflight,
                   conso, prod, started, folded, authFailed, counted, cause>>
    /\ UNCHANGED exceptGetAll

(* lines 195-196 *)
GetAllReject ==
    /\ gpc = "idle"
    /\ response' = <<[status |-> 400, success |-> FALSE]>>
    /\ gpc' = "responded"
    /\ UNCHANGED <<npdl, pdl, stream, gOffpeakStr, gCurrent, gChunkEnd, gAllData,
                   globalConso, globalProd, inflight, conso, prod, started, folded,
                   authFailed, counted, cause>>
    /\ UNCHANGED exceptGetAll

(* lines 219, 121, 125: getToken succeeds, the contracts request is issued *)
GetAllInfoIssue ==
    /\ gpc = "meter"
    /\ inflight' = inflight \cup {ContractsRequest}
    /\ conso' = <<>> /\ prod' = <<>> /\ started' = {}
    /\ authFailed' = {f \in authFailed : f.pdl = pdl - 1}
    /\ gpc' = "info"
    /\ UNCHANGED <<npdl, pdl, stream, gOffpeakStr, gCurrent, gChunkEnd, gAllData,
                   globalConso, globalProd, response, folded, counted, cause>>
    /\ UNCHANGED exceptGetAll

(* lines 126-133, 221-227: the lookup answers or fails *)
GetAllInfoDone ==
    /\ gpc = "info"
    /\ \E contract \in Contracts :
        /\ gOffpeakStr' = OffpeakStrOf(contract)
        /\ globalConso' = [globalConso EXCEPT
                              !.offpeak_hours = @ \cup {OffpeakStrOf(contract)}]
    /\ inflight' = Settle(inflight, ContractsRequest)
    /\ stream' = "consumption"
    /\ gpc' = "call"
    /\ UNCHANGED <<npdl, pdl, gCurrent, gChunkEnd, gAllData, globalProd, response,
                   conso, prod, started, folded, authFailed, counted, cause>>
    /\ UNCHANGED exceptGetAll

(* the windows whose record is among the readings *)
RecordsOf(recs, d) ==
    Cardinality({i \in 1..Len(recs) : recs[i] = WindowRecord([start |-> d, end |-> d])})

Count(cnt, st, recs) ==
    [cnt EXCEPT ![st] = [d \in WindowStarts |-> @[d] + RecordsOf(recs, d)]]

(* lines 248-253: the structure of prod after the catch and the test on its keys *)
ProdMonthly(r) ==
    IF r.threw \/ Len(r.monthly) = 0 THEN getEmptyMonthsStructure ELSE r.monthly

(* lines 254-255 *)
FoldProd(gp, mon) ==
    [total_wh |-> gp.total_wh + TotalOf(mon),
     monthly |-> aggregateMonths(gp.monthly, mon).target]

(* lines 254-256, then the next meter or, after the last one, lines 259-280 *)
ProdDone(mon, recs) ==
    /\ prod' = <<[total_wh |-> TotalOf(mon), monthly |-> mon]>>
    /\ globalProd' = FoldProd(globalProd, mon)
    /\ folded' = folded \cup {[pdl |-> pdl, stream |-> "production"]}
    /\ counted' = Count(counted, "production", recs)
    /\ IF pdl < npdl
       THEN /\ pdl' = pdl + 1 /\ stream' = "consumption" /\ gpc' = "meter"
            /\ UNCHANGED response
       ELSE /\ gpc' = "responded"
            /\ response' = <<[status |-> 200, success |-> TRUE]>>
            /\ UNCHANGED <<pdl, stream>>
    /\ UNCHANGED <<conso, globalConso, cause>>

(* lines 166-190, then the handler goes on: lines 232-241 after the
   consumption fetch (a throw is not caught), lines 247-256 after the
   production fetch *)
FetchEnds(byAuth) ==
    LET r == Aggregate(gAllData, IF stream = "consumption" THEN gOffpeakStr ELSE <<>>)
    IN  /\ authFailed' = IF byAuth
                         THEN authFailed \cup {[pdl |-> pdl, stream |-> stream]}
                         ELSE authFailed
        /\ IF stream = "consumption"
           THEN IF r.threw
                THEN /\ gpc' = "crashed" /\ cause' = "record"
                     /\ UNCHANGED <<pdl, stream, globalConso, globalProd, response,
                                    conso, prod, folded, counted>>
                ELSE /\ conso' = <<[total_wh |-> TotalOf(r.monthly), monthly |-> r.monthly]>>
                     /\ globalConso' = FoldConso(globalConso, r.monthly)
                     /\ folded' = folded \cup {[pdl |-> pdl, stream |-> "consumption"]}
                     /\ counted' = Count(counted, "consumption", gAllData)
                     /\ stream' = "production" /\ gpc' = "call"
                     /\ UNCHANGED <<pdl, globalProd, response, prod, cause>>
           ELSE ProdDone(ProdMonthly(r), IF r.threw THEN <<>> ELSE gAllData)

(* lines 121 and 138: getToken throws in the contract lookup or in the
   consumption fetch; nothing catches it, the handler ends without an answer *)
GetAllTokenFails ==
    /\ gpc = "meter" \/ (gpc = "call" /\ stream = "consumption")
    /\ gpc' = "crashed" /\ cause' = "token"
    /\ UNCHANGED <<npdl, pdl, stream, gOffpeakStr, gCurrent, gChunkEnd, gAllData,
                   globalConso, globalProd, response, inflight, conso, prod, started,
                   folded, authFailed, counted>>
    /\ UNCHANGED exceptGetAll

(* lines 138, 247-250: getToken throws in the production fetch, the catch
   replaces the result by an empty one *)
GetAllProdTokenFails ==
    /\ gpc = "call" /\ stream = "production"
    /\ ProdDone(getEmptyMonthsStructure, <<>>)
    /\ UNCHANGED <<npdl, gOffpeakStr, gCurrent, gChunkEnd, gAllData, inflight, started,
                   authFailed>>
    /\ UNCHANGED exceptGetAll

(* lines 138-142 *)
GetAllFetchStart ==
    /\ gpc = "call"
    /\ gAllData' = <<>>
    /\ gCurrent' = GetAllStart
    /\ started' = started \cup {[pdl |-> pdl, stream |-> stream]}
    /\ gpc' = "loop"
    /\ UNCHANGED <<npdl, pdl, stream, gOffpeakStr, gChunkEnd, globalConso, globalProd,
                   response, inflight, conso, prod, folded, authFailed, counted, cause>>
    /\ UNCHANGED exceptGetAll

(* lines 144-156 *)
GetAllIssueChunk ==
    /\ gpc = "loop"
    /\ gCurrent <= GetAllEnd
    /\ gChunkEnd' = ClippedEnd(gCurrent, GetAllEnd)
    /\ inflight' = inflight \cup {ChunkRequest}
    /\ gpc' = "await"
    /\ UNCHANGED <<npdl, pdl, stream, gOffpeakStr, gCurrent, gAllData, globalConso,
                   globalProd, response, conso, prod, started, folded,
                   authFailed, counted, cause>>
    /\ UNCHANGED exceptGetAll

(* lines 157-159, 163 *)
GetAllChunkData ==
    /\ gpc = "await"
    /\ \E answer \in WindowReadings(ChunkRequest.window) :
        gAllData' = gAllData \o answer
    /\ inflight' = Settle(inflight, ChunkRequest)
    /\ gCurrent' = NextCursor(gChunkEnd)
    /\ gpc' = "loop"
    /\ UNCHANGED <<npdl, pdl, stream, gOffpeakStr, gChunkEnd, globalConso, globalProd,
                   response, conso, prod, started, folded, authFailed, counted, cause>>
    /\ UNCHANGED exceptGetAll

(* lines 157, 163: an answer without interval_reading *)
GetAllChunkEmpty ==
    /\ gpc = "await"
    /\ inflight' = Settle(inflight, ChunkRequest)
    /\ gCurrent' = NextCursor(gChunkEnd)
    /\ gpc' = "loop"
    /\ UNCHANGED <<npdl, pdl, stream, gOffpeakStr, gChunkEnd, gAllData, globalConso,
                   globalProd, response, conso, prod, started, folded,
                   authFailed, counted, cause>>
    /\ UNCHANGED exceptGetAll

(* lines 160-163: a failure other than 401 / 403 *)
GetAllChunkFail ==
    /\ gpc = "await"
    /\ \E status \in ErrStatuses : ~InternalBreaks(status)
    /\ inflight' = Settle(inflight, ChunkRequest)
    /\ gCurrent' = NextCursor(gChunkEnd)
    /\ gpc' = "loop"
    /\ UNCHANGED <<npdl, pdl, stream, gOffpeakStr, gChunkEnd, gAllData, globalConso,
                   globalProd, response, conso, prod, started, folded,
                   authFailed, counted, cause>>
    /\ UNCHANGED exceptGetAll

(* lines 160-161: 401 or 403, the loop is left and the fetch ends *)
GetAllChunkAuthFail ==
    /\ gpc = "await"
    /\ \E status \in ErrStatuses : InternalBreaks(status)
    /\ inflight' = Settle(inflight, ChunkRequest)
    /\ FetchEnds(TRUE)
    /\ UNCHANGED <<npdl, gOffpeakStr, gCurrent, gChunkEnd, gAllData, started>>
    /\ UNCHANGED exceptGetAll

(* line 144: the cursor is past the end, the fetch ends *)
GetAllFetchReturn ==
    /\ gpc = "loop"
    /\ gCurrent > GetAllEnd
    /\ FetchEnds(FALSE)
    /\ UNCHANGED <<npdl, gOffpeakStr, gCurrent, gChunkEnd, gAllData, inflight, started>>
    /\ UNCHANGED exceptGetAll

GetAllNext ==
    \/ GetAllReceive \/ GetAllReject \/ GetAllInfoIssue \/ GetAllInfoDone
    \/ GetAllTokenFails \/ GetAllProdTokenFails \/ GetAllFetchStart
    \/ GetAllIssueChunk \/ GetAllChunkData \/ GetAllChunkEmpty
    \/ GetAllChunkFail \/ GetAllChunkAuthFail \/ GetAllFetchReturn

SpecGetAll == Init /\ [][GetAllNext]_vars

----------------------------------------------------------------------------
(* aggregateData (server.js lines 518-535) and the calibration pass of
   fetchMeteringData (lines 627-692), reached with errorOccurred false and
   aggregate = 'hourly_monthly'.

   Hourly sums and totals are counted in hundredths of a Wh, the precision
   Math.round(v * 100) / 100 keeps; divisions are exact, where the program
   computes in double precision. *)

(* line 523: `${year}-${month + 1}` *)
MonthKey(d) == <<d.year, d.month + 1>>

(* line 525 *)
ZeroHours == [h \in 1..HoursPerDay |-> 0]

(* lines 521-522: no date, or a date that cannot be read *)
Dropped(entry) == ~entry.date.given \/ ~entry.date.valid

(* lines 526-528: value * 0.5 Wh, in hundredths; a value that is no number counts 0 *)
Hundredths(value) == 50 * value

(* lines 520-529: the body of forEach *)
AddReading(sums, entry) ==
    IF Dropped(entry) THEN sums
    ELSE LET monthKey == MonthKey(entry.date)
             hours == IF HasKey(sums, monthKey) THEN Get(sums, monthKey) ELSE ZeroHours
         IN  Put(sums, monthKey,
                 [hours EXCEPT ![entry.date.hours + 1] = @ + Hundredths(entry.value)])

RECURSIVE AddReadings(_, _)
AddReadings(sums, list) ==
    IF list = <<>> THEN sums ELSE AddReadings(AddReading(sums, Head(list)), Tail(list))

(* lines 518-535; the rounding of lines 530-532 keeps whole hundredths as they are *)
aggregateData(list) == AddReadings(<<>>, list)

RECURSIVE SumSeq(_)
SumSeq(seq) == IF seq = <<>> THEN 0 ELSE Head(seq) + SumSeq(Tail(seq))

Abs(x) == IF x < 0 THEN -x ELSE x

(* any difference is above the threshold *)
AnyDifference(o, c) == TRUE

(* line 651: diffPct > 0.5, diffPct being |o - c| / c * 100 *)
DiffAbove(o, c) == 200 * Abs(o - c) > c

(* line 651 *)
Rescales(o, c) == c > 0 /\ o > 0 /\ DiffAbove(o, c)

(* an empty daily total is never told apart *)
NeverEmpty(o, c) == FALSE

(* line 657 *)
DailyEmpty(o, c) == o = 0 /\ c > 0

(* line 653: Math.round(v * ratio * 100) / 100 with ratio = o / c *)
Rescale(v, o, c) == (2 * v * o + c) \div (2 * c)

(* line 650: Math.round of a number of hundredths, in Wh *)
RoundWh(x) == (x + 50) \div 100

(* line 650: diffPct.toFixed(1), in tenths of a percent *)
DiffTenths(o, c) == IF c > 0 THEN (2000 * Abs(o - c) + c) \div (2 * c) ELSE 0

(* line 654: ratio.toFixed(3), in thousandths *)
RatioThousandths(o, c) == (2000 * o + c) \div (2 * c)

SkippedReason == "Daily vide"

(* line 650 *)
BaseInfo(o, c) ==
    Put(Put(Put(<<>>, "official", RoundWh(o)), "calculated", RoundWh(c)),
        "diff_pct", DiffTenths(o, c))

(* lines 650-664: the entry of adjustmentInfo for a month *)
InfoFor(o, c) ==
    IF Rescales(o, c)
    THEN Put(Put(BaseInfo(o, c), "ratio", RatioThousandths(o, c)), "skipped", FALSE)
    ELSE IF DailyEmpty(o, c)
    THEN Put(Put(BaseInfo(o, c), "skipped", TRUE), "skipped_reason", SkippedReason)
    ELSE Put(BaseInfo(o, c), "skipped", FALSE)

(* lines 651-653: the hourly values of the month after the test *)
HoursFor(hours, o, c) ==
    IF Rescales(o, c) THEN [h \in 1..Len(hours) |-> Rescale(hours[h], o, c)] ELSE hours

(* the failure leaves no trace *)
FailureUnrecorded(info, monthKey) == info

(* line 666 *)
FailureRecorded(info, monthKey) == Put(info, monthKey, Put(<<>>, "error", "message"))

CalibDates == {DateAt(2024, 0, 0, 0), DateAt(2024, 0, 10, 0), DateAt(2024, 0, 23, 0),
               DateAt(2024, 1, 10, 0), MalformedDate}
CalibReadings == [date : CalibDates, value : {60}]
ReadingLists == UNION {[1..n -> CalibReadings] : n \in 0..MaxReadings}

(* totals of the daily endpoint, in hundredths of a Wh: 0, 30.10, 100 *)
OfficialTotals == {0, 3010, 10000}

(* lines 627-637: the readings are aggregated, the for loop begins *)
CalibStart ==
    /\ cpc = "idle"
    /\ \E list \in ReadingLists :
        /\ readings' = list
        /\ data' = aggregateData(list)
        /\ aggregated' = aggregateData(list)
    /\ nmonths' = 0 /\ adjustmentInfo' = <<>> /\ officials' = <<>>
    /\ cpc' = "months"
    /\ UNCHANGED calibResponse
    /\ UNCHANGED exceptCalib

(* lines 638-645: the span of the month inside the range is empty, continue *)
CalibOutside ==
    /\ cpc = "months"
    /\ nmonths < Len(aggregated)
    /\ nmonths' = nmonths + 1
    /\ officials' = Append(officials, [kind |-> "outside", official |-> 0])
    /\ UNCHANGED <<cpc, readings, data, aggregated, adjustmentInfo, calibResponse>>
    /\ UNCHANGED exceptCalib

(* lines 646-664: getMonthlyOfficialTotal returns the daily total of the month *)
CalibOfficial ==
    /\ cpc = "months"
    /\ nmonths < Len(aggregated)
    /\ \E officialTotal \in OfficialTotals :
        LET monthKey == aggregated[nmonths + 1].key
            calculatedTotal == SumSeq(Get(data, monthKey))
        IN  /\ data' = Put(data, monthKey,
                           HoursFor(Get(data, monthKey), officialTotal, calculatedTotal))
            /\ adjustmentInfo' = Put(adjustmentInfo, monthKey,
                                     InfoFor(officialTotal, calculatedTotal))
            /\ officials' = Append(officials, [kind |-> "total", official |-> officialTotal])
    /\ nmonths' = nmonths + 1
    /\ UNCHANGED <<cpc, readings, aggregated, calibResponse>>
    /\ UNCHANGED exceptCalib

(* lines 646, 665-668: getMonthlyOfficialTotal throws *)
CalibFails ==
    /\ cpc = "months"
    /\ nmonths < Len(aggregated)
    /\ adjustmentInfo' = FailureRecorded(adjustmentInfo, aggregated[nmonths + 1].key)
    /\ officials' = Append(officials, [kind |-> "failed", official |-> 0])
    /\ nmonths' = nmonths + 1
    /\ UNCHANGED <<cpc, readings, data, aggregated, calibResponse>>
    /\ UNCHANGED exceptCalib

RECURSIVE SumMonths(_)
SumMonths(obj) ==
    IF obj = <<>> THEN 0 ELSE SumSeq(Head(obj).value) + SumMonths(Tail(obj))

(* lines 672, 680-691: the total is computed again and the answer sent *)
CalibRespond ==
    /\ cpc = "months"
    /\ nmonths = Len(aggregated)
    /\ calibResponse' = <<[status |-> 200, success |-> TRUE,
                           total_wh |-> RoundWh(SumMonths(data))]>>
    /\ cpc' = "responded"
    /\ UNCHANGED <<readings, data, aggregated, nmonths, adjustmentInfo, officials>>
    /\ UNCHANGED exceptCalib

CalibNext == CalibStart \/ CalibOutside \/ CalibOfficial \/ CalibFails \/ CalibRespond

SpecCalib == Init /\ [][CalibNext]_vars

----------------------------------------------------------------------------
(* Two concurrent requests of POST /get-all.

   The handler of a request runs alone between two awaits, so a step is what
   it does from one await to the next.  The objects it creates live in a heap
   and are known to it by their references; heap[ref] is the object.  Each
   request also keeps, outside the program, what its accumulators would hold
   if it were the only request (aloneConso, aloneProd). *)

(* what a fetch of one meter returns: nothing, or energy in January *)
PairResults == {getEmptyMonthsStructure,
                MeterStructure([total_wh |-> 10, hp_wh |-> 4, hc_wh |-> 6], ZeroMonth)}

(* what the contract lookup of one meter gives: nothing, or a schedule *)
PairContracts == {NoContract, [present |-> TRUE, offpeak_hours |-> TextShort]}

(* the accumulators are two objects made when the module loads *)
ModuleLevel(h, kind) == IF kind = "conso" THEN 1 ELSE 2

(* lines 203-214: an object literal evaluated in the handler is a new object *)
Fresh(h, kind) == Len(h) + 1

(* the object is stored under the reference *)
Store(h, ref, obj) == IF ref <= Len(h) THEN [h EXCEPT ![ref] = obj] ELSE Append(h, obj)

(* lines 262-280 *)
PairAnswer(gc, gp) ==
    <<[status |-> 200, success |-> TRUE, consumption |-> gc, production |-> gp]>>

(* lines 194-219: the body is valid, the accumulators are created, the
   contract lookup of the first meter is awaited *)
PairReceive(r) ==
    /\ rpc[r] = "idle"
    /\ \E n \in 1..MaxPairMeters : rn' = [rn EXCEPT ![r] = n]
    /\ LET c == Fresh(heap, "conso")
           h1 == Store(heap, c, EmptyConso)
           p == Fresh(h1, "prod")
       IN  /\ consoRef' = [consoRef EXCEPT ![r] = c]
           /\ prodRef' = [prodRef EXCEPT ![r] = p]
           /\ heap' = Store(h1, p, EmptyProd)
    /\ aloneConso' = [aloneConso EXCEPT ![r] = EmptyConso]
    /\ aloneProd' = [aloneProd EXCEPT ![r] = EmptyProd]
    /\ rk' = [rk EXCEPT ![r] = 1]
    /\ rpc' = [rpc EXCEPT ![r] = "info"]
    /\ UNCHANGED rResponse
    /\ UNCHANGED exceptPair

(* lines 195-196 *)
PairReject(r) ==
    /\ rpc[r] = "idle"
    /\ rResponse' = [rResponse EXCEPT ![r] = <<[status |-> 400, success |-> FALSE]>>]
    /\ rpc' = [rpc EXCEPT ![r] = "responded"]
    /\ UNCHANGED <<rn, rk, heap, consoRef, prodRef, aloneConso, aloneProd>>
    /\ UNCHANGED exceptPair

(* lines 219-230: the lookup is over, the schedule is added to the set, the
   consumption fetch is awaited *)
PairInfoDone(r) ==
    /\ rpc[r] = "info"
    /\ \E contract \in PairContracts :
        LET str == OffpeakStrOf(contract)
        IN  /\ heap' = [heap EXCEPT ![consoRef[r]].offpeak_hours = @ \cup {str}]
            /\ aloneConso' = [aloneConso EXCEPT ![r].offpeak_hours = @ \cup {str}]
    /\ rpc' = [rpc EXCEPT ![r] = "conso"]
    /\ UNCHANGED <<rn, rk, consoRef, prodRef, aloneProd, rResponse>>
    /\ UNCHANGED exceptPair

(* lines 219, 230: getToken throws in the lookup or in the consumption fetch,
   or a record cannot be aggregated: the handler ends without an answer *)
PairThrows(r) ==
    /\ rpc[r] \in {"info", "conso"}
    /\ rpc' = [rpc EXCEPT ![r] = "crashed"]
    /\ UNCHANGED <<rn, rk, heap, consoRef, prodRef, aloneConso, aloneProd, rResponse>>
    /\ UNCHANGED exceptPair

(* lines 230-247: the consumption fetch returns, its result is folded, the
   production fetch is awaited *)
PairConsoDone(r) ==
    /\ rpc[r] = "conso"
    /\ \E mon \in PairResults :
        /\ heap' = [heap EXCEPT ![consoRef[r]] = FoldConso(@, mon)]
        /\ aloneConso' = [aloneConso EXCEPT ![r] = FoldConso(@, mon)]
    /\ rpc' = [rpc EXCEPT ![r] = "prod"]
    /\ UNCHANGED <<rn, rk, consoRef, prodRef, aloneProd, rResponse>>
    /\ UNCHANGED exceptPair

(* lines 247-280: the production fetch returns or throws, its result is
   folded; the lookup of the next meter is awaited or the answer is sent *)
PairProdDone(r) ==
    /\ rpc[r] = "prod"
    /\ \E mon \in PairResults :
        /\ heap' = [heap EXCEPT ![prodRef[r]] = FoldProd(@, mon)]
        /\ aloneProd' = [aloneProd EXCEPT ![r] = FoldProd(@, mon)]
    /\ IF rk[r] < rn[r]
       THEN /\ rk' = [rk EXCEPT ![r] = @ + 1]
            /\ rpc' = [rpc EXCEPT ![r] = "info"]
            /\ UNCHANGED rResponse
       ELSE /\ rResponse' = [rResponse EXCEPT
                                ![r] = PairAnswer(heap'[consoRef[r]], heap'[prodRef[r]])]
            /\ rpc' = [rpc EXCEPT ![r] = "responded"]
            /\ UNCHANGED rk
    /\ UNCHANGED <<rn, consoRef, prodRef, aloneConso>>
    /\ UNCHANGED exceptPair

PairNext ==
    \E r \in RequestIds :
        \/ PairReceive(r) \/ PairReject(r) \/ PairInfoDone(r) \/ PairThrows(r)
        \/ PairConsoDone(r) \/ PairProdDone(r)

SpecPair == Init /\ [][PairNext]_vars

----------------------------------------------------------------------------
(* getToken (server.js lines 61-83 and 343-374), called by concurrent
   requests.  Node runs a call without interruption up to its await, so a
   call is one step up to the token request and one step for its outcome.
   Time is in units of five minutes. *)

MaxClock == 3
MaxPosts == 2

(* the 300 s taken off expires_in at line 77, in units of five minutes *)
ExpiryMargin == 1

(* the 55 minutes of line 367, in units of five minutes *)
AppTokenLife == 11

UserTokens == {<<"u">>, <<" ", "u", " ">>}
ProvidedChoices == {Null, <<>>, <<" ">>} \cup UserTokens
AppTokens == {<<"a">>, <<"b">>}
EndpointTokens == AppTokens \cup {Null}
ExpiresIn == {1, 3}
Declarations == {"first", "second"}

(* a JavaScript string or null taken as a condition *)
Truthy(s) == s # Null /\ s # <<>>

(* the provided token is passed over *)
IgnoresProvided(p) == FALSE

(* line 62: providedToken?.trim(); line 344: accessTokenProvided &&
   accessTokenProvided.trim() !== '' *)
UsesProvided(p) == IF p = Null THEN FALSE ELSE Truthy(trim(p))

(* lines 64 and 350 *)
CacheValid(cache, now) == Truthy(cache.token) /\ now < cache.expiresAt

(* line 77 (first declaration) and line 367 (second declaration) *)
ExpiresAt(decl, now, expires_in) ==
    IF decl = "first" THEN now + (expires_in - ExpiryMargin) ELSE now + AppTokenLife

(* Date.now() goes on *)
Tick ==
    /\ clock < MaxClock
    /\ clock' = clock + 1
    /\ UNCHANGED <<tpc, tProvided, tNow, tResult, appTokenCache, posts>>
    /\ UNCHANGED exceptToken

(* lines 61-73 and 343-362: the call of request r, up to its return or to
   the request sent to the token endpoint *)
TokenCall(r) ==
    /\ tpc[r] # "await"
    /\ \E p \in ProvidedChoices :
        /\ tProvided' = [tProvided EXCEPT ![r] = p]
        /\ IF UsesProvided(p)
           THEN /\ tResult' = [tResult EXCEPT ![r] = p]
                /\ tpc' = [tpc EXCEPT ![r] = "returned"]
                /\ UNCHANGED <<tNow, posts>>
           ELSE IF CacheValid(appTokenCache, clock)
                   THEN /\ tResult' = [tResult EXCEPT ![r] = appTokenCache.token]
                        /\ tpc' = [tpc EXCEPT ![r] = "returned"]
                        /\ UNCHANGED <<tNow, posts>>
                   ELSE /\ posts < MaxPosts
                        /\ posts' = posts + 1
                        /\ tNow' = [tNow EXCEPT ![r] = clock]
                        /\ tResult' = [tResult EXCEPT ![r] = Null]
                        /\ tpc' = [tpc EXCEPT ![r] = "await"]
    /\ UNCHANGED <<appTokenCache, clock>>
    /\ UNCHANGED exceptToken

(* lines 76-78 and 366-369: the token endpoint answers *)
TokenAnswer(r) ==
    /\ tpc[r] = "await"
    /\ \E tok \in EndpointTokens : \E ei \in ExpiresIn : \E decl \in Declarations :
        /\ appTokenCache' = [token |-> tok, expiresAt |-> ExpiresAt(decl, tNow[r], ei)]
        /\ tResult' = [tResult EXCEPT ![r] = appTokenCache'.token]
    /\ tpc' = [tpc EXCEPT ![r] = "returned"]
    /\ tNow' = [tNow EXCEPT ![r] = 0]
    /\ UNCHANGED <<tProvided, clock, posts>>
    /\ UNCHANGED exceptToken

(* lines 79-82 and 370-373: the token request fails, getToken throws *)
TokenThrows(r) ==
    /\ tpc[r] = "await"
    /\ tpc' = [tpc EXCEPT ![r] = "threw"]
    /\ tNow' = [tNow EXCEPT ![r] = 0]
    /\ UNCHANGED <<tProvided, tResult, appTokenCache, clock, posts>>
    /\ UNCHANGED exceptToken

TokenNext ==
    \/ Tick
    \/ \E r \in RequestIds : TokenCall(r) \/ TokenAnswer(r) \/ TokenThrows(r)

SpecToken == Init /\ [][TokenNext]_vars

----------------------------------------------------------------------------
(* Properties of the chunk loops *)

NeverRepeated(ws) ==
    \A i, j \in 1..Len(ws) : i < j => ws[i].end < ws[j].start

(* C1: in fetchMeteringInternal a chunk failing with 401 or 403 ends the loop
   at once: the failing chunk is the last request issued, no window was asked
   twice, the function returns (it does not throw) and what it aggregates is
   exactly the readings of the chunks served before the failure. *)
C1_AuthFailureStopsInternal ==
    (fn = "internal" /\ authAt # 0) =>
        /\ pc = "done" /\ outcome = "returned"
        /\ Len(requests) = authAt
        /\ NeverRepeated(requests)
        /\ aggInput = Flatten(served)
        /\ \A i \in 1..Len(served) : \E j \in 1..(authAt - 1) : requests[j] = served[i]

(* a 20-day range whose second chunk fails with 401/403, the first one served *)
C1_Witness ==
    /\ fn = "internal" /\ authAt = 2 /\ pc = "done"
    /\ format(end) - format(start) = 19
    /\ Len(served) = 1 /\ Len(aggInput) = 7

(* C2: in fetchMeteringData (server.js) no load-curve request follows a chunk
   failure with 401 or 403: the failing request is the last one of the call. *)
C2_AuthFailureStopsData ==
    (fn = "data" /\ authAt # 0) => Len(requests) = authAt

Partitions(ws, a, b) ==
    /\ Len(ws) >= 1
    /\ ws[1].start = a
    /\ ws[Len(ws)].end = b
    /\ \A i \in 1..Len(ws) : ws[i].start <= ws[i].end /\ ws[i].end - ws[i].start + 1 <= 7
    /\ \A i \in 1..(Len(ws) - 1) : ws[i + 1].start = ws[i].end + 1
    /\ \A d \in a..b : Cardinality({i \in 1..Len(ws) : ws[i].start <= d /\ d <= ws[i].end}) = 1

(* C3: when every chunk request succeeds with readings, the windows requested
   partition the range: the first starts at range.start, each spans at most 7
   days, each next one starts the day after the previous end, the last ends at
   range.end, and every day lies in exactly one window. *)
C3_WindowsPartitionRange ==
    (pc = "done" /\ outcome \in {"returned", "200"} /\ seen \subseteq {"data"}) =>
        Partitions(requests, format(start), format(end))

(* a range of three windows, the last one clipped, not starting on day 0 *)
C3_Witness ==
    /\ pc = "done" /\ outcome \in {"returned", "200"} /\ seen = {"data"}
    /\ Len(requests) = 3 /\ format(start) = 1
    /\ requests[3].end - requests[3].start < 6

(* C4: in fetchMeteringData (server.js), when every response is empty the loop
   stops after exactly 3 chunk requests whatever the range, and the handler
   answers with a success. *)
C4_ThreeEmptyChunksStopData ==
    (fn = "data" /\ seen = {"empty"}) =>
        /\ Len(requests) <= 3
        /\ pc = "done" => (Len(requests) = 3 /\ outcome = "200" /\ ~errorOccurred)

(* all-empty on a range of four windows *)
C4_Witness ==
    /\ fn = "data" /\ seen = {"empty"} /\ pc = "done"
    /\ format(end) - format(start) = MaxSpanDays
    /\ Len(requests) = 3

(* C5: in fetchMeteringInternal, when every chunk is empty or fails with a
   non-authorization error, the fetch stops after 3 consecutive such chunks. *)
C5_InternalStopsAfterThreeEmpty ==
    (fn = "internal" /\ seen # {} /\ seen \subseteq {"empty", "transient"}) =>
        Len(requests) <= 3

----------------------------------------------------------------------------
(* Properties of the off-peak schedule *)

InPeriod(m, S, E) == IF E < S THEN (m >= S \/ m < E) ELSE (S <= m /\ m < E)

InSchedule(m, sch) ==
    \E i \in 1..Len(sch) : InPeriod(m, 60 * sch[i].startH, 60 * sch[i].endH)

Minute == 60 * date.hours + date.minutes

(* C6: for a schedule of whole-hour ranges and every minute-of-day m,
   isTimeInOffpeak is true iff some range, with start S and end E in minutes,
   has E < S and (m >= S or m < E), or E >= S and S <= m < E. Checked on the
   timestamp classified, and for a single range on all 1440 minutes. *)
C6_WholeHourRangesMatch ==
    /\ (opc = "classified" /\ schedule # <<>>) => (offpeak <=> InSchedule(Minute, schedule))
    /\ (opc = "parsed" /\ Len(schedule) = 1) =>
          \A h \in 0..23 : \A m \in 0..59 :
              isTimeInOffpeak([hours |-> h, minutes |-> m], periods)
                  <=> InSchedule(60 * h + m, schedule)

(* 22h-6h at 05:59 is off-peak *)
C6_Witness ==
    /\ opc = "classified" /\ schedule = <<[startH |-> 22, endH |-> 6]>>
    /\ date = [hours |-> 5, minutes |-> 59] /\ offpeak

HasNoDash(str) == str = Null \/ \A i \in 1..Len(str) : str[i] # "-"

(* C7: for a text that is empty, null or without '-', parseOffpeakHours returns
   an empty list and isTimeInOffpeak with it is false for every timestamp. *)
C7_NoDashMeansPeak ==
    (opc # "idle" /\ HasNoDash(text)) =>
        /\ periods = <<>>
        /\ \A d \in Dates : ~isTimeInOffpeak(d, periods)
        /\ opc = "classified" => ~offpeak

(* "Hc;" classified at 23:00 *)
C7_Witness ==
    /\ opc = "classified" /\ text = <<"H", "c", ";">>
    /\ date = [hours |-> 23, minutes |-> 0] /\ ~offpeak

(* C8: a sub-token with hours and minutes is matched at minute granularity:
   for "22h-6h;12h30-14h" off-peak is exactly [1320,1440), [0,360), [750,840). *)
C8_HalfHourGranularity ==
    (opc = "classified" /\ text = TextHalfHour) =>
        (offpeak <=> \/ (Minute >= 1320 /\ Minute < 1440)
                     \/ (Minute >= 0 /\ Minute < 360)
                     \/ (Minute >= 750 /\ Minute < 840))

(* C9: the four notations of 22h-6h give the same answer for every minute:
   off-peak exactly for minutes >= 1320 or < 360. *)
C9_NotationsEquivalent ==
    (opc = "classified" /\ text \in {TextDefault, TextShort, TextPadded, TextColon}) =>
        (offpeak <=> (Minute >= 1320 \/ Minute < 360))

(* C10 as stated: a sub-token without digit is taken as 0, so "x-6h" is the
   period [0,360). *)
C10_NoDigitBoundIsZero ==
    (opc = "classified" /\ text = TextNoDigit) => (offpeak <=> (Minute >= 0 /\ Minute < 360))

(* the first two sub-tokens of a range token, one of them without any digit *)
HasDigitlessBound(range) ==
    LET parts == SplitDash(range, <<>>)
    IN  \/ Len(parts) < 2
        \/ \A i \in 1..Len(parts[1]) : ~IsDigit(parts[1][i])
        \/ \A i \in 1..Len(parts[2]) : ~IsDigit(parts[2][i])

(* C10, amended: a range token one of whose sub-tokens contains no digit never
   matches: a schedule made of such tokens classifies every timestamp as peak
   (for "x-6h", 03:00 and 07:00 are both peak). *)
C10_NoDigitBoundNeverMatches ==
    (opc = "classified" /\ periods # <<>>
        /\ \A i \in 1..Len(periods) : HasDigitlessBound(periods[i])) => ~offpeak

(* "x-6h" at 03:00 *)
C10_Witness ==
    /\ opc = "classified" /\ text = TextNoDigit /\ periods = <<TextNoDigit>>
    /\ date = [hours |-> 3, minutes |-> 0] /\ ~offpeak

----------------------------------------------------------------------------
(* Properties of the monthly aggregation *)

RECURSIVE SumValues(_, _)
SumValues(recs, S) ==
    IF S = {} THEN 0
    ELSE LET j == CHOOSE k \in S : TRUE
         IN  recs[j].value + SumValues(recs, S \ {j})

(* the records visited so far that carry a date and a value falling in month i *)
VisitedIn(i) ==
    {j \in 1..idx : entries[j].date.given /\ entries[j].value # 0
                    /\ entries[j].date.month = i - 1}

OffpeakIn(i) == {j \in VisitedIn(i) : isTimeInOffpeak(entries[j].date, aggPeriods)}

(* what the records visited so far are worth for month i, in halves of a Wh *)
Expected(i) ==
    [total_wh |-> SumValues(entries, VisitedIn(i)),
     hp_wh |-> SumValues(entries, VisitedIn(i) \ OffpeakIn(i)),
     hc_wh |-> SumValues(entries, OffpeakIn(i))]

Rounded(month) ==
    [total_wh |-> MathRound(month.total_wh), hp_wh |-> MathRound(month.hp_wh),
     hc_wh |-> MathRound(month.hc_wh)]

JanuaryMorning == <<[date |-> DateAt(2024, 0, 10, 0), value |-> 1000]>>

(* C11: during the aggregation of fetchMeteringInternal every record that has
   a date (one parseISO reads) and a value has added value * 0.5 Wh to the
   total of the month of its date and to exactly one of the peak and off-peak
   fields of that month, off-peak exactly when isTimeInOffpeak holds, and to
   no other month; the returned structure holds these sums rounded.  One
   record of 1000 W on 15 January 10:00 with an empty schedule gives January
   500 / 500 / 0 and zero in every other month. *)
C11_EntryAddsHalfValueToItsMonth ==
    /\ apc \in {"entries", "threw"} =>
          \A i \in 1..12 : HasKey(monthly, MOIS_FR[i])
                           /\ Get(monthly, MOIS_FR[i]) = Expected(i)
    /\ apc = "returned" =>
          \A i \in 1..12 : HasKey(monthly, MOIS_FR[i])
                           /\ Get(monthly, MOIS_FR[i]) = Rounded(Expected(i))
    /\ (apc = "returned" /\ entries = JanuaryMorning /\ offpeakStr = <<>>) =>
          /\ Get(monthly, "Janvier") = [total_wh |-> 500, hp_wh |-> 500, hc_wh |-> 0]
          /\ \A i \in 2..12 : Get(monthly, MOIS_FR[i]) = ZeroMonth
          /\ total = 500

(* two records of January, 1000 W at 10:00 (peak) and 1001 W at 23:00 (off-peak) *)
C11_Witness ==
    /\ apc = "returned" /\ offpeakStr = TextDefault /\ Len(entries) = 2
    /\ Get(monthly, "Janvier") = [total_wh |-> 1001, hp_wh |-> 500, hc_wh |-> 501]

(* C14: in the structure fetchMeteringInternal returns, the consumption of
   every month is the sum of its peak and off-peak parts:
   total_wh = hp_wh + hc_wh after the rounding of lines 182-186. *)
C14_TotalIsPeakPlusOffpeak ==
    apc = "returned" =>
        \A i \in 1..Len(monthly) :
            monthly[i].value.total_wh = monthly[i].value.hp_wh + monthly[i].value.hc_wh

----------------------------------------------------------------------------
(* Properties of the folds *)

RECURSIVE FoldAll(_, _)
FoldAll(tgt, list) ==
    IF list = <<>> THEN tgt
    ELSE FoldAll(aggregateMonths(tgt, Head(list)).target, Tail(list))

Orders(n) == {p \in [1..n -> 1..n] : \A i, j \in 1..n : i # j => p[i] # p[j]}

RECURSIVE SumOfMeters(_, _, _)
SumOfMeters(list, mois, field) ==
    IF list = <<>> THEN 0
    ELSE Get(Head(list), mois)[field] + SumOfMeters(Tail(list), mois, field)

AllFolded == fpc = "folding" /\ nfolded = Len(sources)

(* C13: aggregateMonths adds, month by month, the total, peak and off-peak
   values of the source to the target and leaves the source as it was; once
   all the meters are folded the global structure is the same for every order
   of the meters (January 10 and January 5 give January 15). *)
C13_FoldAddsEveryMonthInAnyOrder ==
    fpc = "folding" =>
        /\ sources = given
        /\ Keys(target) = MOIS_FR
        /\ \A i \in 1..12 : \A field \in {"total_wh", "hp_wh", "hc_wh"} :
              Get(target, MOIS_FR[i])[field] =
                  SumOfMeters(SubSeq(given, 1, nfolded), MOIS_FR[i], field)
        /\ AllFolded =>
              \A p \in Orders(Len(given)) :
                  FoldAll(getEmptyMonthsStructure,
                          [i \in 1..Len(given) |-> given[p[i]]]) = target

(* meter A with January 10 and meter B with January 5 folded: January 15 *)
C13_Witness ==
    /\ AllFolded /\ Len(given) = 2
    /\ Get(given[1], "Janvier").total_wh = 10
    /\ Get(given[2], "Janvier").total_wh = 5
    /\ Get(target, "Janvier") = [total_wh |-> 15, hp_wh |-> 9, hc_wh |-> 6]

----------------------------------------------------------------------------
(* Properties of POST /get-all *)

WellFormed(mon) == Keys(mon) = MOIS_FR

MonthlyStructures ==
    {globalConso.monthly, globalProd.monthly}
        \cup {conso[i].monthly : i \in 1..Len(conso)}
        \cup {prod[i].monthly : i \in 1..Len(prod)}

(* C12: every monthly structure of /get-all, the consumption and production
   result of the meter being processed and the two global accumulators, has
   the 12 month names of MOIS_FR as its keys, in that order, whatever the
   chunks answered and whether or not the production fetch threw. *)
C12_TwelveMonthsAlways == \A mon \in MonthlyStructures : WellFormed(mon)

(* two meters answered: a fetch of the first was ended by 401 / 403, the
   production fetch of the second threw on getToken, records were folded *)
C12_Witness ==
    /\ gpc = "responded" /\ npdl = 2 /\ Len(conso) = 1 /\ Len(prod) = 1
    /\ [pdl |-> 1, stream |-> "consumption"] \in authFailed
    /\ [pdl |-> 2, stream |-> "production"] \in folded \ started
    /\ Get(globalConso.monthly, "Janvier").total_wh > 0
    /\ Get(globalProd.monthly, "Fevrier").total_wh > 0

Both(j) == {[pdl |-> j, stream |-> st] : st \in Streams} \subseteq folded

(* C19: one /get-all request works strictly in sequence: at most one
   upstream request is outstanding, it belongs to the meter and the fetch in
   progress, and a request for a meter is outstanding only when the
   consumption and production results of every earlier meter are folded into
   the global accumulators (and, for its production, its own consumption). *)
C19_StrictlySequential ==
    /\ Cardinality(inflight) <= 1
    /\ \A r \in inflight :
          /\ r.pdl = pdl
          /\ r.what \in Streams => r.what = stream /\ gpc = "await"
          /\ \A j \in 1..(r.pdl - 1) : Both(j)
          /\ r.what = "production" => [pdl |-> pdl, stream |-> "consumption"] \in folded
    /\ \A f \in started : \A j \in 1..(f.pdl - 1) : Both(j)

(* the second window of the production fetch of the second meter is requested *)
C19_Witness ==
    /\ gpc = "await" /\ pdl = 2 /\ stream = "production"
    /\ inflight = {ChunkRequest} /\ ChunkRequest.window.start = WeekDays
    /\ Both(1)

MonthOfWindow(d) == MOIS_FR[((d \div WeekDays) % 12) + 1]

Global(st) == IF st = "consumption" THEN globalConso.monthly ELSE globalProd.monthly

InProgress(j, st) == pdl = j /\ stream = st /\ gpc \in {"call", "loop", "await"}

(* C20: in /get-all a chunk failure with 401 / 403 ends only the fetch it
   happens in.  The handler does not stop on it (it stops without an answer
   only when getToken throws or a record cannot be aggregated); what the
   failing fetch had collected is folded; after a failing consumption fetch
   the production fetch of the same meter follows; and when the handler
   answers, it answers success with both results of every meter folded, the
   global months holding the records of all the folded fetches. *)
C20_AuthFailureEndsOnlyItsFetch ==
    /\ gpc = "crashed" => cause \in {"token", "record"}
    /\ \A f \in authFailed :
          \/ f \in folded
          \/ f.stream = "consumption" /\ pdl = f.pdl /\ gpc = "crashed" /\ cause = "record"
    /\ \A f \in authFailed :
          (f.stream = "consumption" /\ f \in folded) =>
              \/ [pdl |-> f.pdl, stream |-> "production"] \in folded
              \/ InProgress(f.pdl, "production")
    /\ (gpc = "responded" /\ npdl > 0) =>
          /\ response = <<[status |-> 200, success |-> TRUE]>>
          /\ \A j \in 1..npdl : Both(j)
    /\ \A st \in Streams : \A d \in WindowStarts :
          Get(Global(st), MonthOfWindow(d)).total_wh = MathRound(1001) * counted[st][d]

(* two meters: the consumption fetch of the first got the record of the first
   window and a 401 / 403 on the second; the request was answered, with that
   record and those of the second meter in the global months *)
C20_Witness ==
    /\ gpc = "responded" /\ npdl = 2
    /\ authFailed = {[pdl |-> 1, stream |-> "consumption"]}
    /\ counted["consumption"][0] = 2 /\ counted["consumption"][WeekDays] = 1
    /\ counted["production"][0] = 2
    /\ {[pdl |-> 2, stream |-> st] : st \in Streams} \subseteq started

----------------------------------------------------------------------------
(* Properties of the calibration pass *)

Visited == 1..nmonths

KeyOf(i) == aggregated[i].key

(* the calculated total of the i-th month, in hundredths of a Wh *)
Calculated(i) == SumSeq(aggregated[i].value)

Official(i) == officials[i].official

GotTotal(i) == officials[i].kind = "total"

BothPositive(i) == GotTotal(i) /\ Calculated(i) > 0 /\ Official(i) > 0

Unchanged(i) == Get(data, KeyOf(i)) = aggregated[i].value

(* every hourly value multiplied by official / calculated, rounded to the hundredth *)
Multiplied(i) ==
    \A h \in 1..HoursPerDay :
        LET v == aggregated[i].value[h]
            w == Get(data, KeyOf(i))[h]
        IN  /\ 2 * Calculated(i) * w <= 2 * v * Official(i) + Calculated(i)
            /\ 2 * v * Official(i) + Calculated(i) < 2 * Calculated(i) * (w + 1)

RatioRecorded(i) ==
    /\ HasKey(adjustmentInfo, KeyOf(i))
    /\ HasKey(Get(adjustmentInfo, KeyOf(i)), "ratio")

(* C15: a month whose calculated and official totals are both positive and
   which is rescaled has, after the correction, a total equal to the official
   total exactly. *)
C15_RescaledTotalIsOfficial ==
    \A i \in Visited :
        (BothPositive(i) /\ RatioRecorded(i)) => SumSeq(Get(data, KeyOf(i))) = Official(i)

(* C16 as stated: a month is rescaled, and its ratio recorded, whenever its
   calculated and official totals are both positive, however small their
   difference. *)
C16_RescaledWheneverBothPositive ==
    \A i \in Visited : BothPositive(i) => RatioRecorded(i) /\ Multiplied(i)

(* C16: a month is rescaled by official / calculated, and the ratio recorded
   in adjustment_info, exactly when its calculated and official totals are
   both positive and differ by more than 0.5 % of the calculated total; in
   every other case its values stay as aggregated and no ratio is recorded. *)
C16_RescaledAboveHalfPercent ==
    \A i \in Visited :
        GotTotal(i) =>
            IF BothPositive(i) /\ 200 * Abs(Official(i) - Calculated(i)) > Calculated(i)
            THEN /\ RatioRecorded(i) /\ Multiplied(i)
                 /\ Get(Get(adjustmentInfo, KeyOf(i)), "skipped") = FALSE
            ELSE ~RatioRecorded(i) /\ Unchanged(i)

(* a month of 90 Wh rescaled to the official 100 Wh, and a month of 30 Wh
   left as it is with an official total of 30.10 Wh *)
C16_Witness ==
    /\ cpc = "responded"
    /\ \E i \in Visited : BothPositive(i) /\ RatioRecorded(i) /\ ~Unchanged(i)
                          /\ Calculated(i) = 9000 /\ Official(i) = 10000
                          /\ Get(Get(adjustmentInfo, KeyOf(i)), "ratio") = 1111

(* C17: when the official total of a month is zero and its calculated total
   positive, the values of the month stay exactly as aggregated and the month
   is recorded in adjustment_info with skipped = true and a skipped_reason. *)
C17_EmptyDailySkipsTheMonth ==
    \A i \in Visited :
        (GotTotal(i) /\ Official(i) = 0 /\ Calculated(i) > 0) =>
            /\ Unchanged(i)
            /\ HasKey(adjustmentInfo, KeyOf(i))
            /\ LET info == Get(adjustmentInfo, KeyOf(i))
               IN  /\ HasKey(info, "skipped") /\ Get(info, "skipped") = TRUE
                   /\ HasKey(info, "skipped_reason")
                   /\ ~HasKey(info, "ratio")

(* the answer is sent, a month of 60 Wh got an official total of zero *)
C17_Witness ==
    /\ cpc = "responded"
    /\ \E i \in Visited : GotTotal(i) /\ Official(i) = 0 /\ Calculated(i) = 6000

(* C18: when getMonthlyOfficialTotal fails for a month, the values of the
   month stay as aggregated and the failure is recorded for it in
   adjustment_info; the months after it are still visited, each one that got
   a total being recorded, and the answer is HTTP 200 with success true. *)
C18_FailedMonthDoesNotFailTheCall ==
    /\ \A i \in Visited :
          officials[i].kind = "failed" =>
              /\ Unchanged(i)
              /\ HasKey(adjustmentInfo, KeyOf(i))
              /\ HasKey(Get(adjustmentInfo, KeyOf(i)), "error")
    /\ \A i \in Visited : GotTotal(i) => HasKey(adjustmentInfo, KeyOf(i))
    /\ cpc = "responded" =>
          /\ nmonths = Len(aggregated)
          /\ calibResponse[1].status = 200 /\ calibResponse[1].success = TRUE

(* the first of two months failed, the second was rescaled, the answer is sent *)
C18_Witness ==
    /\ cpc = "responded" /\ nmonths = 2
    /\ officials[1].kind = "failed"
    /\ RatioRecorded(2) /\ ~Unchanged(2)

----------------------------------------------------------------------------
(* Properties of the failures of POST /get-all *)

Success == <<[status |-> 200, success |-> TRUE]>>

(* getToken threw in the production fetch of the meter in hand: its result
   was folded without the fetch having entered its loop *)
TokenFailedInProduction == [pdl |-> pdl, stream |-> "production"] \in folded \ started

(* C21: a request of /get-all during which getToken threw, in the contract
   lookup, in the consumption fetch or in the production fetch, is never
   answered with success. *)
C21_TokenFailureIsFatal ==
    (cause = "token" \/ TokenFailedInProduction) => response # Success

----------------------------------------------------------------------------
(* Properties of the chunk loops, continued *)

(* C22: in fetchMeteringInternal and in both variants of fetchMeteringData
   a chunk request failing with an error other than 401 / 403 (500, 429, no
   response) is never fatal: the call ends without throwing and without
   HTTP 500, and it hands on the readings of the chunks that were served. *)
C22_TransientFailureNotFatal ==
    (pc = "done" /\ "transient" \in seen) =>
        /\ outcome \in {"returned", "200"}
        /\ aggInput = Flatten(served)

----------------------------------------------------------------------------
(* Properties of the schedule of a meter of /get-all *)

YieldsNoSchedule(contract) ==
    ~contract.present \/ contract.offpeak_hours \in {Null, <<>>}

(* C23: when the contract lookup of a meter yields no off-peak schedule (the
   lookup failed or found no contract, or offpeak_hours is null or empty) the
   timestamps of the meter are classified with "HC (22H00-06H00)": off-peak
   exactly for the minutes of the day >= 1320 or < 360; a schedule the lookup
   returned is the text that is parsed, unchanged. *)
C23_DefaultScheduleWhenNone ==
    lookup # <<>> =>
        IF YieldsNoSchedule(lookup[1])
        THEN /\ text = TextDefault
             /\ opc = "classified" => (offpeak <=> (Minute >= 1320 \/ Minute < 360))
        ELSE /\ text = lookup[1].offpeak_hours
             /\ periods = parseOffpeakHours(lookup[1].offpeak_hours)

(* a contract without offpeak_hours, a timestamp at 22:00 classified off-peak *)
C23_Witness ==
    /\ opc = "classified"
    /\ lookup = <<[present |-> TRUE, offpeak_hours |-> Null]>>
    /\ date = [hours |-> 22, minutes |-> 0] /\ offpeak

----------------------------------------------------------------------------
(* Properties of two concurrent requests of /get-all *)

Running(r) == consoRef[r] # 0

(* C24: under every interleaving of two requests of /get-all the accumulators
   of a request are objects of its own: at every moment they hold what they
   would hold were the request alone with the same upstream answers, whatever
   the other request folded in the meantime, and so does its answer. *)
C24_AccumulatorsPrivate ==
    /\ \A r \in RequestIds :
          Running(r) =>
              /\ heap[consoRef[r]] = aloneConso[r]
              /\ heap[prodRef[r]] = aloneProd[r]
              /\ rResponse[r] # <<>> =>
                    rResponse[r] = PairAnswer(aloneConso[r], aloneProd[r])
    /\ \A r, q \in RequestIds :
          (r # q /\ Running(r) /\ Running(q)) =>
              {consoRef[r], prodRef[r]} \cap {consoRef[q], prodRef[q]} = {}

(* both requests have folded their consumption, with different sums and
   schedules, and wait for their production fetch; request 2 came first *)
C24_Witness ==
    /\ rpc[1] = "prod" /\ rpc[2] = "prod" /\ consoRef[2] < consoRef[1]
    /\ Get(heap[consoRef[1]].monthly, "Janvier").total_wh = 10
    /\ Get(heap[consoRef[2]].monthly, "Janvier").total_wh = 0
    /\ heap[consoRef[1]].offpeak_hours = {TextDefault}
    /\ heap[consoRef[2]].offpeak_hours = {TextShort}

(* C25: in fetchMeteringData (server.js) a window whose request fails or
   returns no reading is skipped: the next request is for the following
   window, so that no window is requested twice. *)
C25_FailingWindowIsSkipped ==
    fn = "data" =>
        \A i \in 1..(Len(requests) - 1) : requests[i + 1].start = requests[i].end + 1

(* the requests for the window at the cursor that were not served *)
Unserved == {i \in 1..Len(requests) : requests[i].start = format(current)}

(* the loop was left by one of its break statements *)
StoppedEarly == pc = "done" /\ outcome = "200" /\ current <= end

(* C26: in fetchMeteringData (server.js) consecutiveEmpty never exceeds 3
   and is the number of requests, all failed or empty, issued since the last
   chunk with readings; the loop stops early only when the three most recent
   requests failed or were empty; and skippedChunks, sent as skipped_chunks,
   is the number of requests that failed or were empty. *)
C26_CountersOfSkippedChunks ==
    (fn = "data" /\ pc \in {"loop", "done"} /\ outcome \notin {"400", "500"}) =>
        /\ consecutiveEmpty <= 3
        /\ consecutiveEmpty = Cardinality(Unserved)
        /\ skippedChunks = Len(requests) - Len(served)
        /\ StoppedEarly <=>
              /\ Len(requests) >= 3
              /\ \A i \in (Len(requests) - 2)..Len(requests) :
                    requests[i] = Last(requests) /\ i \in Unserved

(* two chunks served, the third window failed twice and was empty once *)
C26_Witness ==
    /\ fn = "data" /\ StoppedEarly
    /\ Len(served) = 2 /\ Len(requests) = 5 /\ skippedChunks = 3
    /\ seen = {"data", "empty", "transient"}

----------------------------------------------------------------------------
(* Properties of the aggregation, continued *)

Readable(entry) == entry.date # MalformedDate

(* C27: in the aggregation of fetchMeteringInternal a record whose date is
   present but is no valid date-time is dropped like a record without date:
   the aggregation does not throw, and it returns what it returns for the
   records without the malformed ones. *)
C27_MalformedDateIsDropped ==
    /\ apc # "threw"
    /\ apc = "returned" =>
          monthly = Aggregate(SelectSeq(entries, Readable), offpeakStr).monthly

(* the records with a date and a value of month index m and year y *)
OfMonthAndYear(m, y) ==
    {j \in 1..Len(entries) : entries[j].date.valid /\ entries[j].value # 0
                             /\ entries[j].date.month = m /\ entries[j].date.year = y}

SampleYears == {2024, 2025}

(* C29: the bucket of a record of fetchMeteringInternal depends on the month
   of its date and not on its year: the structure has one bucket per month
   name, and the total of a month is the rounded sum of the records of that
   month of every year, so that the first and the last month of a range of
   one year are summed together. *)
C29_BucketIgnoresYear ==
    apc = "returned" =>
        /\ Keys(monthly) = MOIS_FR
        /\ \A i \in 1..12 :
              Get(monthly, MOIS_FR[i]).total_wh =
                  MathRound(SumValues(entries,
                                      UNION {OfMonthAndYear(i - 1, y) : y \in SampleYears}))

(* a record of January 2024 and one of January 2025 in the same bucket *)
C29_Witness ==
    /\ apc = "returned"
    /\ entries = <<[date |-> DateAt(2024, 0, 10, 0), value |-> 1000],
                   [date |-> DateAt(2025, 0, 10, 0), value |-> 1001]>>
    /\ Get(monthly, "Janvier").total_wh = 1001

----------------------------------------------------------------------------
(* Properties of the chunk loop of fetchMeteringData, continued *)

(* the number of weekly windows of the range *)
WindowsOfRange == ((format(end) - format(start)) \div WeekDays) + 1

(* one iteration: from the answer of a request to the next loop test *)
Iteration == fn = "data" /\ pc = "await" /\ pc' # "await"

Advances == current' > current /\ consecutiveEmpty' = 0 /\ pc' = "loop"

CountsTowardsStop ==
    /\ current' = current
    /\ consecutiveEmpty' = consecutiveEmpty + 1
    /\ pc' = "done" <=> consecutiveEmpty' > 2

(* C28: the chunk loop of fetchMeteringData (server.js) terminates for every
   range and every sequence of chunk outcomes: each iteration either advances
   the window or increments the counter that stops the loop above 2, at most
   3 requests are issued per window of the range, and the call reaches its
   answer. *)
C28_DataLoopTerminates ==
    /\ [][Iteration => (Advances \/ CountsTowardsStop)]_vars
    /\ [](fn = "data" => Len(requests) <= 3 * WindowsOfRange)
    /\ (fn = "data") ~> (pc = "done")

(* a range of four windows answered after 9 requests *)
C28_Witness ==
    /\ fn = "data" /\ pc = "done" /\ outcome = "200"
    /\ WindowsOfRange = 4 /\ Len(requests) = 9 /\ Len(served) = 3

----------------------------------------------------------------------------
(* Properties of getToken *)

NonBlank(p) == p # Null /\ \E i \in 1..Len(p) : ~IsSpace(p[i])

(* request r calls getToken in this step *)
Calls(r) ==
    /\ tpc[r] # "await"
    /\ <<tpc'[r], tProvided'[r], tResult'[r]>> # <<tpc[r], tProvided[r], tResult[r]>>

(* C30: a call of getToken with a non-blank provided token returns exactly
   that token, sends nothing to the token endpoint and leaves appTokenCache
   as it was, whatever the other requests do before and after; so that the
   cache never holds a user's token and a call without a token never
   returns one. *)
C30_ProvidedTokenBypassesCache ==
    /\ [][\A r \in RequestIds :
            Calls(r) /\ NonBlank(tProvided'[r])
            => /\ tpc'[r] = "returned" /\ tResult'[r] = tProvided'[r]
               /\ posts' = posts
               /\ appTokenCache' = appTokenCache]_vars
    /\ [](\A r \in RequestIds :
            /\ NonBlank(tProvided[r]) => tpc[r] = "returned" /\ tResult[r] = tProvided[r]
            /\ ~NonBlank(tProvided[r]) /\ tpc[r] = "returned" => tResult[r] \notin UserTokens)
    /\ [](appTokenCache.token \notin UserTokens)

(* request 1 holds the padded token it supplied, request 2, which supplied
   none, holds the app token of the cache, filled by a token request made
   in between *)
C30_Witness ==
    /\ tpc[1] = "returned" /\ tProvided[1] = <<" ", "u", " ">> /\ tResult[1] = <<" ", "u", " ">>
    /\ tpc[2] = "returned" /\ tProvided[2] = Null /\ tResult[2] = <<"a">>
    /\ appTokenCache.token = <<"a">> /\ posts = 1

====
